---- MODULE Spec2Model ----
(***************************************************************************)
(* Amethyst: an embedded LSM key-value engine.                             *)
(*                                                                         *)
(* The model follows internal/db (Open, Put, Delete, Get, the group-commit *)
(* worker, flushMemtable, writeSSTable, replayWAL), internal/wal,          *)
(* internal/memtable, internal/manifest and the lookup side of             *)
(* internal/sstable and internal/block.  Files are modelled by their       *)
(* contents: a WAL file is the sequence of frames appended to it (a frame  *)
(* cut short by a kill is the record Torn), an SST file is the sorted      *)
(* entry stream written to it, MANIFEST is the Version last renamed into   *)
(* place.                                                                  *)
(***************************************************************************)
EXTENDS Integers, Sequences, FiniteSets, TLC

(***************************************************************************)
(* Bounds of the exploration.                                              *)
(***************************************************************************)
\* Put/Delete calls that create a request, over the whole behaviour.
MaxCalls == 5
\* Options.MaxBatchSize (WithMaxBatchSize); with two callers a batch of two
\* is both the full batch and the largest one that can form.
MaxBatchSize == 2
\* File operations of the write path that fail, over the whole behaviour.
MaxFaults == 1
\* Put/Delete calls that create a request where termination is checked.
MaxLiveCalls == 3
\* Manifest.Flush calls that fail where MANIFEST.tmp is followed.
MaxFlushFaults == 2
\* SetWAL/Apply calls where the Version objects are followed one by one.
MaxEdits == 3

(***************************************************************************)
(* Program constants.                                                      *)
(***************************************************************************)
\* Options.MemtableFlushThreshold as the flush tests set it
\* (WithMemtableFlushThreshold(2)).
MemtableFlushThreshold == 2
\* DefaultOptions.MaxSSTableLevel
MaxSSTableLevel == 3
\* make(chan *writeRequest, 100)
ChanCap == 100

Clients == {1, 2}

\* Keys and values are byte strings; the empty key is a legal argument.
EmptyKey == <<>>
Keys == {EmptyKey, <<1>>, <<2>>}

\* The calls explored: client 1 puts any key and deletes the empty key and
\* key <<1>>; client 2 is a second writer putting to key <<2>> at the same
\* time.
PutKeys(c) == IF c = 1 THEN Keys ELSE {<<2>>}
DeleteKeys(c) == IF c = 1 THEN {EmptyKey, <<1>>} ELSE {}
NoValue == <<>>

EntryTypePut == 0
EntryTypeDelete == 1

VARIABLES
  up,           \* the process is running (Open has returned a DB)
  openErr,      \* the last Open returned an error
  crashPc,      \* while the process is down: the worker's position at the kill
  faults,       \* file operations that have failed so far
  closed,       \* DB.Close has returned
  versions,     \* the Version objects allocated so far; m.current is the last
  held,         \* a reader's Version: [id, seen], the pointer Current()
                \* returned and the contents it had then (id 0: none held)
  nextSeq,      \* DB.nextSeq
  memtable,     \* DB.memtable: [items, next]
  wal,          \* DB.wal: [no, open]
  newWAL,       \* flushMemtable's newWALNum / newWAL
  current,      \* Manifest.current
  writeChan,    \* DB.writeChan
  batch,        \* the worker's batch
  wpc,          \* the worker's position
  widx,         \* entries of the batch written / replies sent so far
  cpc,          \* each client's position
  creq,         \* each client's writeRequest
  resultCh,     \* each client's req.resultCh
  ret,          \* each client's last return value
  walFiles,     \* wal/<n>.log
  sstFiles,     \* sstable/0/<n>.sst
  manifestFile, \* MANIFEST
  manifestTmp,  \* MANIFEST.tmp
  arrivals,     \* history: requests sent on writeChan so far
  expect,       \* history: per key, the outcome of the last request sent
  lastRet,      \* history: per key, the latest-arrived write whose call returned nil
  durable,      \* history: per key, the outcome of the last frame appended to a WAL
  prefixes,     \* history: the value of durable after each appended frame
  dmu,          \* DB.mu as a sync.RWMutex: [w, pend, r, rw]
  mmu,          \* Manifest.mu, likewise
  lpc,          \* lock-level view: each goroutine's position
  lq,           \* lock-level view: [chan, batch, res, lf, files]
  input,        \* a function of the packages called on its own: its arguments
  output        \* and what it returned (NoCall before the call)

vars == <<up, openErr, crashPc, faults, closed, versions, held, nextSeq, memtable, wal, newWAL,
          current, writeChan, batch, wpc, widx, cpc, creq, resultCh, ret,
          walFiles, sstFiles, manifestFile, manifestTmp,
          arrivals, expect, lastRet, durable, prefixes, dmu, mmu, lpc, lq,
          input, output>>

memVars == <<nextSeq, memtable, wal, newWAL, current>>
workerVars == <<batch, wpc, widx>>
clientVars == <<cpc, creq, resultCh, ret>>
diskVars == <<walFiles, sstFiles, manifestFile, manifestTmp>>
heapVars == <<versions, held>>
lockVars == <<dmu, mmu, lpc, lq>>
pureVars == <<input, output>>
procVars == <<up, openErr, crashPc, faults, closed, heapVars, lockVars, pureVars>>
histVars == <<arrivals, expect, lastRet, durable, prefixes>>

(***************************************************************************)
(* Byte strings.                                                           *)
(***************************************************************************)
\* bytes.Compare(a, b) < 0
RECURSIVE KeyLess(_, _)
KeyLess(a, b) ==
  IF b = <<>> THEN FALSE
  ELSE IF a = <<>> THEN TRUE
  ELSE IF Head(a) # Head(b) THEN Head(a) < Head(b)
  ELSE KeyLess(Tail(a), Tail(b))

\* sort.Strings over a set of keys
RECURSIVE SortKeys(_)
SortKeys(S) ==
  IF S = {} THEN <<>>
  ELSE LET m == CHOOSE k \in S : \A o \in S : o = k \/ KeyLess(k, o)
       IN <<m>> \o SortKeys(S \ {m})

(***************************************************************************)
(* Read results and the outcome of a write.                                *)
(***************************************************************************)
NotFound == [err |-> "NotFound", value |-> NoValue]
Found(v) == [err |-> "nil", value |-> v]

Outcome(type, value) == IF type = EntryTypePut THEN Found(value) ELSE NotFound

NoKeys == [k \in Keys |-> NotFound]

\* writeRequest: the entry, the client waiting on resultCh, and the
\* request's rank among the sends on writeChan.
Request(id, c, type, key, value) ==
  [id |-> id, c |-> c, Type |-> type, Seq |-> 0, Key |-> key, Value |-> value]

NoRequest == Request(0, 0, EntryTypePut, EmptyKey, NoValue)

(***************************************************************************)
(* internal/memtable: the map-backed memtable.                             *)
(***************************************************************************)
NewMapMemtable == [items |-> <<>>, next |-> 0]

MemPut(m, key, value) ==
  LET n == m.next + 1
      e == [Type |-> EntryTypePut, Seq |-> n, Value |-> value]
  IN [items |-> [k \in DOMAIN m.items \cup {key} |->
                   IF k = key THEN e ELSE m.items[k]],
      next |-> n]

\* A Delete that removes the key's entry and leaves no tombstone.
MemDeleteDropsKey(m, key) ==
  [items |-> [k \in DOMAIN m.items \ {key} |-> m.items[k]],
   next |-> m.next + 1]

MemDelete(m, key) ==
  LET n == m.next + 1
      e == [Type |-> EntryTypeDelete, Seq |-> n, Value |-> NoValue]
  IN [items |-> [k \in DOMAIN m.items \cup {key} |->
                   IF k = key THEN e ELSE m.items[k]],
      next |-> n]

MemHas(m, key) == key \in DOMAIN m.items

MemGet(m, key) ==
  [Type |-> m.items[key].Type, Seq |-> m.items[key].Seq,
   Key |-> key, Value |-> m.items[key].Value]

\* A length that counts the writes.
MemLenCountsWrites(m) == m.next

\* Len: len(m.items)
MemLen(m) == Cardinality(DOMAIN m.items)

\* An iterator that walks the keys from the largest down.
MemIteratorDescending(m) ==
  LET keys == SortKeys(DOMAIN m.items)
  IN [i \in 1..Len(keys) |-> MemGet(m, keys[Len(keys) + 1 - i])]

\* The snapshot the iterator walks: one entry per key, keys ascending.
MemIterator(m) ==
  LET keys == SortKeys(DOMAIN m.items)
  IN [i \in 1..Len(keys) |-> MemGet(m, keys[i])]

\* The switch on entry.Type shared by processBatch and replayWAL.
MemApply(m, e) ==
  IF e.Type = EntryTypePut THEN MemPut(m, e.Key, e.Value)
  ELSE IF e.Type = EntryTypeDelete THEN MemDelete(m, e.Key)
  ELSE m

\* An update loop that stops after the first entry of the batch.
MemApplyFirst(m, es) ==
  IF es = <<>> THEN m ELSE MemApply(m, Head(es))

RECURSIVE MemApplyAll(_, _)
MemApplyAll(m, es) ==
  IF es = <<>> THEN m ELSE MemApplyAll(MemApply(m, Head(es)), Tail(es))

(***************************************************************************)
(* internal/wal and the entry frames of internal/common.                   *)
(***************************************************************************)
\* A frame whose bytes stop before its end.
Torn == [torn |-> TRUE]

Frame(e) == [torn |-> FALSE, Type |-> e.Type, Seq |-> e.Seq,
             Key |-> e.Key, Value |-> e.Value]

\* walIterator: the entries ReadEntry decodes before the stream ends, and
\* how it ends (nil at a frame boundary, ErrIncompleteEntry inside a frame).
RECURSIVE WalRead(_)
WalRead(frames) ==
  IF frames = <<>> THEN [entries |-> <<>>, err |-> "nil"]
  ELSE IF Head(frames).torn THEN [entries |-> <<>>, err |-> "ErrIncompleteEntry"]
  ELSE LET rest == WalRead(Tail(frames))
       IN [entries |-> <<Head(frames)>> \o rest.entries, err |-> rest.err]

RECURSIVE MaxSeqOf(_, _)
MaxSeqOf(es, acc) ==
  IF es = <<>> THEN acc
  ELSE MaxSeqOf(Tail(es), IF Head(es).Seq > acc THEN Head(es).Seq ELSE acc)

\* replayWAL: (0, err) when the iterator fails, else the memtable rebuilt
\* from the entries and the highest seq among them.
ReplayWAL(frames) ==
  LET r == WalRead(frames)
  IN IF r.err # "nil"
     THEN [err |-> r.err, maxSeq |-> 0, mt |-> NewMapMemtable]
     ELSE [err |-> "nil", maxSeq |-> MaxSeqOf(r.entries, 0),
           mt |-> MemApplyAll(NewMapMemtable, r.entries)]

(***************************************************************************)
(* internal/manifest: Versions and edits.                                  *)
(***************************************************************************)
Levels == 0..MaxSSTableLevel

NewManifest ==
  [CurrentWAL |-> 0, Levels |-> [l \in Levels |-> <<>>],
   NextWALNumber |-> 0, NextSSTableNumber |-> 0]

SetWAL(v, num) == [v EXCEPT !.CurrentWAL = num, !.NextWALNumber = num + 1]

FileMetadata(no, smallest, largest) ==
  [FileNo |-> no, SmallestKey |-> smallest, LargestKey |-> largest]

RECURSIVE MaxFileNo(_, _)
MaxFileNo(fms, acc) ==
  IF fms = <<>> THEN acc
  ELSE MaxFileNo(Tail(fms), IF Head(fms).FileNo > acc THEN Head(fms).FileNo ELSE acc)

RECURSIVE Concat(_, _)
Concat(f, S) ==
  IF S = {} THEN <<>>
  ELSE LET l == CHOOSE x \in S : \A y \in S : x <= y
       IN f[l] \o Concat(f, S \ {l})

\* Apply: deletions, then additions appended per level; NextSSTableNumber
\* moves past the largest added file number.
Apply(v, edit) ==
  LET kept(l) == IF l \in DOMAIN edit.DeleteSSTables
                 THEN SelectSeq(v.Levels[l],
                        LAMBDA fm : fm.FileNo \notin edit.DeleteSSTables[l])
                 ELSE v.Levels[l]
      added(l) == IF l \in DOMAIN edit.AddSSTables THEN edit.AddSSTables[l] ELSE <<>>
      maxSSTable == MaxFileNo(Concat(edit.AddSSTables, DOMAIN edit.AddSSTables), 0)
  IN [v EXCEPT !.Levels = [l \in Levels |-> kept(l) \o added(l)],
               !.NextSSTableNumber =
                  IF maxSSTable >= v.NextSSTableNumber
                  THEN maxSSTable + 1 ELSE v.NextSSTableNumber]

(***************************************************************************)
(* internal/sstable and internal/block: writing and point lookup.          *)
(***************************************************************************)
\* A writer that loses the last entry the iterator yields.
WriteSSTableTruncated(entries) ==
  LET kept == SubSeq(entries, 1, Len(entries) - 1)
  IN [complete |-> TRUE, synced |-> FALSE, entries |-> kept,
      SmallestKey |-> IF kept = <<>> THEN <<>> ELSE kept[1].Key,
      LargestKey |-> IF kept = <<>> THEN <<>> ELSE kept[Len(kept)].Key,
      EntryCount |-> Len(kept)]

\* WriteSSTable's data region and its WriteResult.  It writes through an
\* io.Writer and writeSSTable only closes the file: nothing calls Sync on a
\* table file, so its bytes are not forced to the medium.
WriteSSTable(entries) ==
  [complete |-> TRUE, synced |-> FALSE, entries |-> entries,
   SmallestKey |-> IF entries = <<>> THEN <<>> ELSE entries[1].Key,
   LargestKey |-> IF entries = <<>> THEN <<>> ELSE entries[Len(entries)].Key,
   EntryCount |-> Len(entries)]

\* os.Create on the table's path: an empty file without footer.
CreatedFile == [complete |-> FALSE, synced |-> FALSE, entries |-> <<>>,
                SmallestKey |-> <<>>, LargestKey |-> <<>>, EntryCount |-> 0]

\* blockImpl.Get: binary search over the parsed entries.
RECURSIVE BlockSearch(_, _, _, _)
BlockSearch(entries, key, left, right) ==
  IF left >= right THEN 0
  ELSE LET mid == (left + right) \div 2
       IN IF key = entries[mid + 1].Key THEN mid + 1
          ELSE IF KeyLess(key, entries[mid + 1].Key)
               THEN BlockSearch(entries, key, left, mid)
               ELSE BlockSearch(entries, key, mid + 1, right)

\* sstableImpl.Get: index 0 when the key is absent.
TableGet(file, key) == BlockSearch(file.entries, key, 0, Len(file.entries))

(***************************************************************************)
(* internal/db: the read path.                                             *)
(***************************************************************************)
Reverse(s) == [i \in 1..Len(s) |-> s[Len(s) + 1 - i]]

\* Manifest.GetTable fails when the file is missing or has no footer.
TableOpens(files, level, no) ==
  /\ <<level, no>> \in DOMAIN files
  /\ files[<<level, no>>].complete

\* A visit order that walks L0 like the other levels, oldest table first.
VisitOrderOldestFirst(level, fileMetas) == fileMetas

\* The level's files in the order Get visits them.
VisitOrder(level, fileMetas) ==
  IF level = 0 THEN Reverse(fileMetas) ELSE fileMetas

\* An inner loop that treats a tombstone like a miss and goes on to the
\* next table.
RECURSIVE SearchLevelSkipsTombstone(_, _, _, _)
SearchLevelSkipsTombstone(files, level, fms, key) ==
  IF fms = <<>> THEN [hit |-> FALSE, res |-> NotFound]
  ELSE LET fm == Head(fms)
       IN IF ~TableOpens(files, level, fm.FileNo)
          THEN SearchLevelSkipsTombstone(files, level, Tail(fms), key)
          ELSE LET f == files[<<level, fm.FileNo>>]
                   i == TableGet(f, key)
               IN IF i = 0 \/ f.entries[i].Type = EntryTypeDelete
                  THEN SearchLevelSkipsTombstone(files, level, Tail(fms), key)
                  ELSE [hit |-> TRUE, res |-> Found(f.entries[i].Value)]

\* The inner loop of Get over one level: the first table holding the key
\* decides; [hit |-> FALSE] when no table of the level holds it.
RECURSIVE SearchLevel(_, _, _, _)
SearchLevel(files, level, fms, key) ==
  IF fms = <<>> THEN [hit |-> FALSE, res |-> NotFound]
  ELSE LET fm == Head(fms)
       IN IF ~TableOpens(files, level, fm.FileNo)
          THEN SearchLevel(files, level, Tail(fms), key)
          ELSE LET f == files[<<level, fm.FileNo>>]
                   i == TableGet(f, key)
               IN IF i = 0 THEN SearchLevel(files, level, Tail(fms), key)
                  ELSE IF f.entries[i].Type = EntryTypeDelete
                       THEN [hit |-> TRUE, res |-> NotFound]
                       ELSE [hit |-> TRUE, res |-> Found(f.entries[i].Value)]

RECURSIVE SearchLevels(_, _, _, _)
SearchLevels(files, v, level, key) ==
  IF level > MaxSSTableLevel THEN NotFound
  ELSE LET r == SearchLevel(files, level, VisitOrder(level, v.Levels[level]), key)
       IN IF r.hit THEN r.res ELSE SearchLevels(files, v, level + 1, key)

\* DB.Get on a memtable, a Version and the table files.
DBGet(mt, v, files, key) ==
  IF MemHas(mt, key)
  THEN IF MemGet(mt, key).Type = EntryTypeDelete
       THEN NotFound
       ELSE Found(MemGet(mt, key).Value)
  ELSE SearchLevels(files, v, 0, key)

\* What Get returns for key in the present state.
GetResult(key) == DBGet(memtable, current, sstFiles, key)

(***************************************************************************)
(* The worker's positions.  d.mu is held for writing from the start of     *)
(* processBatch to its return, so exactly at the positions of LockedPcs.   *)
(***************************************************************************)
FlushPcs == {"fl_createwal", "fl_sstcreate", "fl_sstwrite", "fl_tmp",
             "fl_rename", "fl_swap"}
LockedPcs == FlushPcs \cup {"assign", "wal_write", "mem_apply"}

(***************************************************************************)
(* sync.RWMutex, as DB.mu and Manifest.mu use it.  A lock is                *)
(* [w, pend, r, rw]: the goroutine holding it for writing, the goroutines   *)
(* inside Lock(), the goroutines holding it for reading, and the goroutines *)
(* inside RLock() behind a writer.  An RLock() that arrives while a writer  *)
(* holds the lock or waits for it is admitted by that writer's Unlock().    *)
(***************************************************************************)
MaxSenders == 3
MaxGetters == 2
MaxQueued == 1
MaxFiles == 1

WorkerId == <<"w", 0>>
Senders == {<<"p", i>> : i \in 1..MaxSenders}
Getters == {<<"g", i>> : i \in 1..MaxGetters}
Goroutines == {WorkerId} \cup Senders \cup Getters

FreeLock == [w |-> {}, pend |-> {}, r |-> {}, rw |-> {}]

RLock(L, p) ==
  IF L.w = {} /\ L.pend = {} THEN [L EXCEPT !.r = @ \cup {p}]
                             ELSE [L EXCEPT !.rw = @ \cup {p}]

\* A return path that leaves the read lock held.
RUnlockMissing(L, p) == L

RUnlock(L, p) == [L EXCEPT !.r = @ \ {p}]

Lock(L, p) == [L EXCEPT !.pend = @ \cup {p}]

CanLock(L, p) == p \in L.pend /\ L.w = {} /\ L.r = {}

Locked(L, p) == [L EXCEPT !.w = {p}, !.pend = @ \ {p}]

Unlock(L, p) == [L EXCEPT !.w = @ \ {p}, !.r = L.rw, !.rw = {}]

\* resultCh: make(chan error, 1)
ReplyCap == 1

\* The Manifest methods flushMemtable calls, in order, by the lock they take:
\* Current, Current (writeSSTable), Apply, SetWAL, Flush.
FlushLocks == <<"r", "r", "w", "w", "r">>

(***************************************************************************)
(* Initial state: Open on an empty directory has returned.                 *)
(***************************************************************************)
\* A path at which no file exists.
NoFile == [exists |-> FALSE]

NoCall == <<>>

DBInit ==
  /\ up = TRUE
  /\ openErr = FALSE
  /\ crashPc = "none"
  /\ faults = 0
  /\ closed = FALSE
  /\ nextSeq = 0
  /\ memtable = NewMapMemtable
  /\ wal = [no |-> NewManifest.NextWALNumber, open |-> TRUE]
  /\ newWAL = 0
  /\ current = SetWAL(NewManifest, NewManifest.NextWALNumber)
  /\ versions = <<current>>
  /\ held = [id |-> 0, seen |-> current]
  /\ writeChan = <<>>
  /\ batch = <<>>
  /\ wpc = "recv"
  /\ widx = 0
  /\ cpc = [c \in Clients |-> "idle"]
  /\ creq = [c \in Clients |-> NoRequest]
  /\ resultCh = [c \in Clients |-> <<>>]
  /\ ret = [c \in Clients |-> "none"]
  /\ walFiles = [n \in {NewManifest.NextWALNumber} |-> <<>>]
  /\ sstFiles = <<>>
  /\ manifestFile = SetWAL(NewManifest, NewManifest.NextWALNumber)
  /\ manifestTmp = NoFile
  /\ arrivals = 0
  /\ expect = NoKeys
  /\ lastRet = [k \in Keys |-> [id |-> 0, out |-> NotFound]]
  /\ durable = NoKeys
  /\ prefixes = {NoKeys}
  /\ dmu = FreeLock
  /\ mmu = FreeLock
  /\ lpc = [p \in Goroutines |-> IF p = WorkerId THEN "w_recv" ELSE "idle"]
  /\ lq = [chan |-> <<>>, batch |-> <<>>, res |-> [p \in Senders |-> 0], lf |-> 0,
          files |-> [g \in Getters |-> 0]]

Init ==
  /\ DBInit
  /\ input = NoCall
  /\ output = NoCall

(***************************************************************************)
(* internal/db: Put, Delete and Get.                                       *)
(***************************************************************************)
\* The values callers pass: every call brings a value not written before.
NewValues == {<<arrivals + 1>>}

\* A key check that lets every key through.
KeyNeverEmpty(key) == FALSE

\* len(key) == 0
KeyIsEmpty(key) == Len(key) = 0

\* The call is rejected before a request exists.
Reject(c) ==
  /\ ret' = [ret EXCEPT ![c] = "ErrEmptyKey"]
  /\ UNCHANGED <<memVars, workerVars, diskVars, procVars, writeChan, cpc,
                 creq, resultCh, histVars>>

\* d.writeChan <- req; the caller then waits on req.resultCh.
Enqueue(c, type, key, value) ==
  LET req == Request(arrivals + 1, c, type, key, value)
  IN /\ Len(writeChan) < ChanCap
     /\ writeChan' = Append(writeChan, req)
     /\ creq' = [creq EXCEPT ![c] = req]
     /\ cpc' = [cpc EXCEPT ![c] = "waiting"]
     /\ ret' = [ret EXCEPT ![c] = "none"]
     /\ arrivals' = arrivals + 1
     /\ expect' = [expect EXCEPT ![key] = Outcome(type, value)]
     /\ UNCHANGED <<memVars, workerVars, diskVars, procVars, resultCh,
                    lastRet, durable, prefixes>>

Put(c, key, value) ==
  /\ up
  /\ key \in PutKeys(c)
  /\ cpc[c] = "idle"
  /\ arrivals < MaxCalls
  /\ IF KeyIsEmpty(key) THEN Reject(c)
     ELSE Enqueue(c, EntryTypePut, key, value)

Delete(c, key) ==
  /\ up
  /\ key \in DeleteKeys(c)
  /\ cpc[c] = "idle"
  /\ arrivals < MaxCalls
  /\ IF KeyIsEmpty(key) THEN Reject(c)
     ELSE Enqueue(c, EntryTypeDelete, key, NoValue)

\* return <-req.resultCh
Return(c) ==
  /\ up
  /\ cpc[c] = "waiting"
  /\ resultCh[c] # <<>>
  /\ ret' = [ret EXCEPT ![c] = Head(resultCh[c])]
  /\ resultCh' = [resultCh EXCEPT ![c] = Tail(resultCh[c])]
  /\ cpc' = [cpc EXCEPT ![c] = "idle"]
  /\ creq' = [creq EXCEPT ![c] = NoRequest]
  /\ lastRet' = IF Head(resultCh[c]) = "nil" /\ creq[c].id > lastRet[creq[c].Key].id
                THEN [lastRet EXCEPT ![creq[c].Key] =
                        [id |-> creq[c].id,
                         out |-> Outcome(creq[c].Type, creq[c].Value)]]
                ELSE lastRet
  /\ UNCHANGED <<memVars, workerVars, diskVars, procVars, writeChan,
                 arrivals, expect, durable, prefixes>>

\* Get runs under d.mu.RLock, so only while the worker is outside
\* processBatch.
Get(key) ==
  /\ up
  /\ wpc \notin LockedPcs
  /\ GetResult(key).err \in {"nil", "NotFound"}
  /\ UNCHANGED vars

(***************************************************************************)
(* internal/db: the group-commit worker.                                   *)
(***************************************************************************)
\* A loop condition that lets one request too many in.
BatchHasRoomInclusive(b) == Len(b) <= MaxBatchSize

\* collectBatch: len(batch) < maxBatchSize
BatchHasRoom(b) == Len(b) < MaxBatchSize

\* collectBatch: first := <-d.writeChan
CollectFirst ==
  /\ up
  /\ wpc = "recv"
  /\ writeChan # <<>>
  /\ batch' = <<Head(writeChan)>>
  /\ writeChan' = Tail(writeChan)
  /\ wpc' = "collect"
  /\ UNCHANGED <<memVars, widx, diskVars, procVars, clientVars, histVars>>

\* collectBatch: the select's receive case
CollectMore ==
  /\ up
  /\ wpc = "collect"
  /\ BatchHasRoom(batch)
  /\ writeChan # <<>>
  /\ batch' = Append(batch, Head(writeChan))
  /\ writeChan' = Tail(writeChan)
  /\ UNCHANGED <<memVars, wpc, widx, diskVars, procVars, clientVars, histVars>>

\* A check that flushes only above the threshold.
FlushNeededAbove(m) == MemLen(m) > MemtableFlushThreshold

\* A check that never asks for a flush.
FlushNeededNever(m) == FALSE

\* memtable.Len() >= MemtableFlushThreshold
FlushNeeded(m) == MemLen(m) >= MemtableFlushThreshold

\* collectBatch returns (the batch is full, or the select's default case);
\* processBatch: d.mu.Lock() and the flush check
ProcessBatchBegin ==
  /\ up
  /\ wpc = "collect"
  /\ ~BatchHasRoom(batch) \/ writeChan = <<>>
  /\ wpc' = IF FlushNeeded(memtable) THEN "fl_createwal" ELSE "assign"
  /\ UNCHANGED <<memVars, batch, widx, diskVars, procVars, writeChan,
                 clientVars, histVars>>

\* A counter that moves once per batch instead of once per request.
NextSeqStuck(seq, n) == seq + 1

\* d.nextSeq++ done n times (the uint32 counter cannot wrap within MaxCalls)
NextSeqAfter(seq, n) == seq + n

\* processBatch: the i-th request of the batch gets the i-th increment
AssignSeqs ==
  /\ up
  /\ wpc = "assign"
  /\ batch' = [i \in 1..Len(batch) |->
                 [batch[i] EXCEPT !.Seq = NextSeqAfter(nextSeq, i)]]
  /\ nextSeq' = NextSeqAfter(nextSeq, Len(batch))
  /\ wpc' = "wal_write"
  /\ widx' = 0
  /\ UNCHANGED <<memtable, wal, newWAL, current, diskVars, procVars,
                 writeChan, clientVars, histVars>>

\* walImpl.WriteEntry: common.WriteEntry(l.file, e) for the next entry
WalWriteEntry ==
  /\ up
  /\ wpc = "wal_write"
  /\ widx < Len(batch)
  /\ wal.open
  /\ LET e == batch[widx + 1]
         d == [durable EXCEPT ![e.Key] = Outcome(e.Type, e.Value)]
     IN /\ walFiles' = [walFiles EXCEPT ![wal.no] = Append(@, Frame(e))]
        /\ durable' = d
        /\ prefixes' = prefixes \cup {d}
  /\ widx' = widx + 1
  /\ UNCHANGED <<memVars, batch, wpc, sstFiles, manifestFile, manifestTmp,
                 procVars, writeChan, clientVars, arrivals, expect, lastRet>>

\* A processBatch that goes on to the memtable whatever WriteEntry returned.
AfterWalWriteIgnoresError(failed) == "mem_apply"

\* processBatch: if err := d.wal.WriteEntry(entries); err != nil { return err }
AfterWalWrite(failed) == IF failed THEN "reply_err" ELSE "mem_apply"

\* walImpl.WriteEntry: l.file.Sync() after the last entry
WalSync ==
  /\ up
  /\ wpc = "wal_write"
  /\ widx = Len(batch)
  /\ wal.open
  /\ wpc' = AfterWalWrite(FALSE)
  /\ UNCHANGED <<memVars, batch, widx, diskVars, procVars, writeChan,
                 clientVars, histVars>>

\* processBatch: the memtable update loop, then d.mu.Unlock()
MemtableUpdate ==
  /\ up
  /\ wpc = "mem_apply"
  /\ memtable' = MemApplyAll(memtable, batch)
  /\ wpc' = "reply"
  /\ widx' = 0
  /\ UNCHANGED <<nextSeq, wal, newWAL, current, batch, diskVars, procVars,
                 writeChan, clientVars, histVars>>

\* A reply loop that stops after its first iteration.
LastReplyFirst(i, b) == TRUE

\* groupCommitLoop: for _, req := range batch ends after the last request
LastReply(i, b) == i + 1 = Len(b)

\* groupCommitLoop: req.resultCh <- err for the next request of the batch
Reply ==
  /\ up
  /\ wpc = "reply"
  /\ widx < Len(batch)
  /\ resultCh' = [resultCh EXCEPT ![batch[widx + 1].c] = Append(@, "nil")]
  /\ IF LastReply(widx, batch)
     THEN /\ wpc' = "recv"
          /\ batch' = <<>>
          /\ widx' = 0
     ELSE /\ widx' = widx + 1
          /\ UNCHANGED <<wpc, batch>>
  /\ UNCHANGED <<memVars, diskVars, procVars, writeChan, cpc, creq, ret,
                 histVars>>

(***************************************************************************)
(* internal/db: flushMemtable and writeSSTable, one step per file          *)
(* operation; a call that only changes memory is part of the step of the   *)
(* file operation next to it.                                              *)
(***************************************************************************)
\* newWALNum := v.NextWALNumber; d.wal.Close();
\* wal.CreateWAL(newWALPath): O_CREATE|O_TRUNC
FlushCreateWAL ==
  /\ up
  /\ wpc = "fl_createwal"
  /\ newWAL' = current.NextWALNumber
  /\ wal' = [wal EXCEPT !.open = FALSE]
  /\ walFiles' = [n \in DOMAIN walFiles \cup {current.NextWALNumber} |->
                    IF n = current.NextWALNumber THEN <<>> ELSE walFiles[n]]
  /\ wpc' = "fl_sstcreate"
  /\ UNCHANGED <<nextSeq, memtable, current, batch, widx, sstFiles,
                 manifestFile, manifestTmp, procVars, writeChan, clientVars,
                 histVars>>

\* writeSSTable: os.Create(SSTablePath(0, v.NextSSTableNumber))
WriteSSTableCreate ==
  /\ up
  /\ wpc = "fl_sstcreate"
  /\ LET path == <<0, current.NextSSTableNumber>>
     IN sstFiles' = [p \in DOMAIN sstFiles \cup {path} |->
                       IF p = path THEN CreatedFile ELSE sstFiles[p]]
  /\ wpc' = "fl_sstwrite"
  /\ UNCHANGED <<memVars, batch, widx, walFiles, manifestFile, manifestTmp,
                 procVars, writeChan, clientVars, histVars>>

\* The edit writeSSTable builds from the WriteResult.
FlushEdit(fileNo, result) ==
  [AddSSTables |-> [l \in {0} |->
      <<FileMetadata(fileNo, result.SmallestKey, result.LargestKey)>>],
   DeleteSSTables |-> <<>>]

\* writeSSTable: sstable.WriteSSTable(f, d.memtable.Iterator()); f.Close();
\* d.manifest.Apply(edit)
WriteSSTableWrite ==
  /\ up
  /\ wpc = "fl_sstwrite"
  /\ LET fileNo == current.NextSSTableNumber
         result == WriteSSTable(MemIterator(memtable))
     IN /\ sstFiles' = [sstFiles EXCEPT ![<<0, fileNo>>] = result]
        /\ current' = Apply(current, FlushEdit(fileNo, result))
  /\ wpc' = "fl_tmp"
  /\ UNCHANGED <<nextSeq, memtable, wal, newWAL, batch, widx, walFiles,
                 manifestFile, manifestTmp, procVars, writeChan, clientVars,
                 histVars>>

\* d.manifest.SetWAL(newWALNum);
\* Manifest.Flush: MANIFEST.tmp created, written, synced and closed
ManifestFlushTmp ==
  /\ up
  /\ wpc = "fl_tmp"
  /\ current' = SetWAL(current, newWAL)
  /\ manifestTmp' = SetWAL(current, newWAL)
  /\ wpc' = "fl_rename"
  /\ UNCHANGED <<nextSeq, memtable, wal, newWAL, batch, widx, walFiles,
                 sstFiles, manifestFile, procVars, writeChan, clientVars,
                 histVars>>

\* A flushMemtable that goes on to the swap whatever Manifest.Flush returned.
AfterManifestFlushIgnoresError(failed) == "fl_swap"

\* flushMemtable: if err := d.manifest.Flush(); err != nil { return err }
AfterManifestFlush(failed) == IF failed THEN "reply_err" ELSE "fl_swap"

\* Manifest.Flush: os.Rename(tmpPath, "MANIFEST")
ManifestFlushRename ==
  /\ up
  /\ wpc = "fl_rename"
  /\ manifestFile' = manifestTmp
  /\ manifestTmp' = NoFile
  /\ wpc' = AfterManifestFlush(FALSE)
  /\ UNCHANGED <<memVars, batch, widx, walFiles, sstFiles, procVars,
                 writeChan, clientVars, histVars>>

\* d.wal = newWAL; d.memtable = memtable.NewMapMemtable()
FlushSwap ==
  /\ up
  /\ wpc = "fl_swap"
  /\ wal' = [no |-> newWAL, open |-> TRUE]
  /\ memtable' = NewMapMemtable
  /\ wpc' = "assign"
  /\ UNCHANGED <<nextSeq, newWAL, current, batch, widx, diskVars, procVars,
                 writeChan, clientVars, histVars>>

(***************************************************************************)
(* Failing file operations.  processBatch returns the error of the first   *)
(* call that fails and groupCommitLoop sends it to every requester of the  *)
(* batch; the worker is then at "reply_err", with d.mu released.           *)
(***************************************************************************)
\* flushMemtable: d.wal.Close() has run, wal.CreateWAL returns an error
FlushCreateWALFails ==
  /\ up
  /\ faults < MaxFaults
  /\ faults' = faults + 1
  /\ wpc = "fl_createwal"
  /\ newWAL' = current.NextWALNumber
  /\ wal' = [wal EXCEPT !.open = FALSE]
  /\ wpc' = "reply_err"
  /\ UNCHANGED <<nextSeq, memtable, current, batch, widx, diskVars, up, openErr, crashPc, closed, heapVars, lockVars, pureVars,
                 writeChan, clientVars, histVars>>

\* writeSSTable: os.Create returns an error
WriteSSTableCreateFails ==
  /\ up
  /\ faults < MaxFaults
  /\ faults' = faults + 1
  /\ wpc = "fl_sstcreate"
  /\ wpc' = "reply_err"
  /\ UNCHANGED <<memVars, batch, widx, diskVars, up, openErr, crashPc, closed, heapVars, lockVars, pureVars, writeChan,
                 clientVars, histVars>>

\* writeSSTable: sstable.WriteSSTable fails part-way, or f.Close() fails
\* after all of it was written; the edit is not applied
WriteSSTableWriteFails ==
  /\ up
  /\ faults < MaxFaults
  /\ faults' = faults + 1
  /\ wpc = "fl_sstwrite"
  /\ \E written \in BOOLEAN :
       sstFiles' = IF written
                   THEN [sstFiles EXCEPT ![<<0, current.NextSSTableNumber>>] =
                           WriteSSTable(MemIterator(memtable))]
                   ELSE sstFiles
  /\ wpc' = "reply_err"
  /\ UNCHANGED <<memVars, batch, widx, walFiles, manifestFile, manifestTmp,
                 up, openErr, crashPc, closed, heapVars, lockVars, pureVars, writeChan, clientVars, histVars>>

\* d.manifest.SetWAL(newWALNum) has run; Manifest.Flush fails before the
\* rename (MANIFEST.tmp is removed, or was never created) or in os.Rename
\* (MANIFEST.tmp stays)
ManifestFlushFailsWithin(budget) ==
  /\ up
  /\ faults < budget
  /\ faults' = faults + 1
  /\ \/ /\ wpc = "fl_tmp"
        /\ current' = SetWAL(current, newWAL)
        /\ \E created \in BOOLEAN :
             manifestTmp' = IF created THEN NoFile ELSE manifestTmp
     \/ /\ wpc = "fl_rename"
        /\ UNCHANGED <<current, manifestTmp>>
  /\ wpc' = AfterManifestFlush(TRUE)
  /\ UNCHANGED <<nextSeq, memtable, wal, newWAL, batch, widx, walFiles,
                 sstFiles, manifestFile, up, openErr, crashPc, closed,
                 heapVars, lockVars, pureVars, writeChan, clientVars, histVars>>

ManifestFlushFails == ManifestFlushFailsWithin(MaxFaults)

\* walImpl.WriteEntry returns an error: the log is closed, common.WriteEntry
\* fails on the next entry (some of its bytes may be in the file), or
\* l.file.Sync() fails
WalWriteFails ==
  /\ up
  /\ faults < MaxFaults
  /\ faults' = faults + 1
  /\ wpc = "wal_write"
  /\ \E partial \in BOOLEAN :
       walFiles' = IF partial /\ wal.open /\ widx < Len(batch)
                   THEN [walFiles EXCEPT ![wal.no] = Append(@, Torn)]
                   ELSE walFiles
  /\ wpc' = AfterWalWrite(TRUE)
  /\ widx' = 0
  /\ UNCHANGED <<memVars, batch, sstFiles, manifestFile, manifestTmp,
                 up, openErr, crashPc, closed, heapVars, lockVars, pureVars, writeChan, clientVars, histVars>>

\* groupCommitLoop: req.resultCh <- err, with err the error of processBatch
ReplyError ==
  /\ up
  /\ wpc = "reply_err"
  /\ widx < Len(batch)
  /\ resultCh' = [resultCh EXCEPT ![batch[widx + 1].c] = Append(@, "err")]
  /\ IF LastReply(widx, batch)
     THEN /\ wpc' = "recv"
          /\ batch' = <<>>
          /\ widx' = 0
     ELSE /\ widx' = widx + 1
          /\ UNCHANGED <<wpc, batch>>
  /\ UNCHANGED <<memVars, diskVars, procVars, writeChan, cpc, creq, ret,
                 histVars>>

(***************************************************************************)
(* internal/db: Close.                                                     *)
(***************************************************************************)
\* DB.Close: d.mu.Lock(); defer d.mu.Unlock(); return nil.  The body is
\* three TODO comments: the WAL, the manifest and the worker are left as
\* they are.
Close ==
  /\ up
  /\ wpc \notin LockedPcs
  /\ closed' = TRUE
  /\ UNCHANGED <<up, openErr, crashPc, faults, heapVars, lockVars, pureVars, memVars, workerVars,
                 diskVars, writeChan, clientVars, histVars>>

(***************************************************************************)
(* internal/manifest: the Version objects behind Manifest.current.  The    *)
(* steps above follow the contents of m.current; these follow the objects, *)
(* for a reader that keeps the pointer Current() returned.                 *)
(***************************************************************************)
\* A copy that hands back the object it was given.
DeepCopyAlias(heap, id) == heap

\* deepCopy: a new Version with the fields of v and a fresh slice per level;
\* the new object is the last of the heap
DeepCopy(heap, id) == Append(heap, heap[id])

\* The edits Apply is called with: one table added to a level with the next
\* file number, one file number deleted from a level.
VersionEdits(v) ==
  {[AddSSTables |-> [l \in {la} |->
       <<FileMetadata(v.NextSSTableNumber, <<1>>, <<2>>)>>],
    DeleteSSTables |-> [l \in {ld} |-> {n}]] :
     la \in {0, 1}, ld \in {0, 1}, n \in 0..(MaxEdits - 1)}

\* Manifest.Current
VersionCurrent ==
  /\ held' = [id |-> Len(versions), seen |-> versions[Len(versions)]]
  /\ UNCHANGED <<up, openErr, crashPc, faults, closed, lockVars, pureVars, versions, memVars,
                 workerVars, diskVars, writeChan, clientVars, histVars>>

\* Manifest.SetWAL
ManifestSetWAL(num) ==
  /\ Len(versions) <= MaxEdits
  /\ LET heap == DeepCopy(versions, Len(versions))
         newVersion == Len(heap)
     IN /\ versions' = [heap EXCEPT ![newVersion] = SetWAL(@, num)]
        /\ current' = versions'[newVersion]
  /\ UNCHANGED <<up, openErr, crashPc, faults, closed, lockVars, pureVars, held, nextSeq,
                 memtable, wal, newWAL, workerVars, diskVars, writeChan,
                 clientVars, histVars>>

\* Manifest.Apply
ManifestApply(edit) ==
  /\ Len(versions) <= MaxEdits
  /\ versions[Len(versions)].NextSSTableNumber < MaxEdits
  /\ LET heap == DeepCopy(versions, Len(versions))
         newVersion == Len(heap)
     IN /\ versions' = [heap EXCEPT ![newVersion] = Apply(@, edit)]
        /\ current' = versions'[newVersion]
  /\ UNCHANGED <<up, openErr, crashPc, faults, closed, lockVars, pureVars, held, nextSeq,
                 memtable, wal, newWAL, workerVars, diskVars, writeChan,
                 clientVars, histVars>>

(***************************************************************************)
(* Kill and recovery.                                                      *)
(***************************************************************************)
\* The process is killed.  Files keep what was written to them; a kill
\* inside common.WriteEntry may leave the first bytes of the next frame.
\* Requests that were not yet in the WAL are lost with the process, so the
\* history of expected and returned writes restarts from what is durable.
Crash ==
  /\ up
  /\ up' = FALSE
  /\ crashPc' = wpc
  /\ \E tear \in BOOLEAN :
       walFiles' = IF tear /\ wpc = "wal_write" /\ widx < Len(batch) /\ wal.open
                   THEN [walFiles EXCEPT ![wal.no] = Append(@, Torn)]
                   ELSE walFiles
  /\ nextSeq' = 0
  /\ memtable' = NewMapMemtable
  /\ wal' = [no |-> 0, open |-> FALSE]
  /\ newWAL' = 0
  /\ current' = NewManifest
  /\ writeChan' = <<>>
  /\ batch' = <<>>
  /\ wpc' = "recv"
  /\ widx' = 0
  /\ cpc' = [c \in Clients |-> "idle"]
  /\ creq' = [c \in Clients |-> NoRequest]
  /\ resultCh' = [c \in Clients |-> <<>>]
  /\ ret' = [c \in Clients |-> "none"]
  /\ expect' = durable
  /\ lastRet' = [k \in Keys |-> [id |-> arrivals, out |-> durable[k]]]
  /\ UNCHANGED <<openErr, faults, closed, heapVars, lockVars, pureVars, sstFiles, manifestFile,
                 manifestTmp, arrivals, durable, prefixes>>

\* The table files after a power loss in which the tables of lost keep none
\* of their bytes: the file exists, empty.
TablesAfterLoss(lost) ==
  [p \in DOMAIN sstFiles |-> IF p \in lost THEN CreatedFile ELSE sstFiles[p]]

\* The frames of the WAL being written that no Sync has covered: those of
\* the batch in progress.
UnsyncedFrames ==
  IF wpc = "wal_write" /\ wal.open THEN widx ELSE 0

\* The WAL files after a power loss that keeps kept of the unsynced frames
\* and, with tear, the first bytes of the frame after them.
WalsAfterLoss(kept, tear) ==
  IF wpc = "wal_write" /\ wal.open
  THEN [walFiles EXCEPT ![wal.no] =
          SubSeq(@, 1, Len(@) - UnsyncedFrames + kept)
            \o (IF tear THEN <<Torn>> ELSE <<>>)]
  ELSE walFiles

\* What a get returns per key on the files wf and sf once Open has
\* replayed the WAL MANIFEST names.
Recovered(wf, sf) ==
  [k \in Keys |->
     IF k = EmptyKey THEN durable[k]
     ELSE DBGet(ReplayWAL(wf[manifestFile.CurrentWAL]).mt, manifestFile, sf, k)]

\* The machine loses power.  What Sync has covered survives: every WAL
\* frame of a finished WriteEntry, MANIFEST.tmp and so MANIFEST.  A table
\* file, which nothing syncs, may be left empty; of the frames of the batch
\* being written any prefix may survive, with or without a torn frame.
PowerLoss ==
  /\ up
  /\ up' = FALSE
  /\ crashPc' = wpc
  /\ \E lost \in SUBSET {p \in DOMAIN sstFiles : ~sstFiles[p].synced},
        kept \in 0..UnsyncedFrames, tear \in BOOLEAN :
       /\ tear => (wpc = "wal_write" /\ wal.open
                     /\ (kept < UnsyncedFrames \/ widx < Len(batch)))
       /\ sstFiles' = TablesAfterLoss(lost)
       /\ walFiles' = WalsAfterLoss(kept, tear)
       /\ durable' = Recovered(WalsAfterLoss(kept, tear), TablesAfterLoss(lost))
  /\ nextSeq' = 0
  /\ memtable' = NewMapMemtable
  /\ wal' = [no |-> 0, open |-> FALSE]
  /\ newWAL' = 0
  /\ current' = NewManifest
  /\ writeChan' = <<>>
  /\ batch' = <<>>
  /\ wpc' = "recv"
  /\ widx' = 0
  /\ cpc' = [c \in Clients |-> "idle"]
  /\ creq' = [c \in Clients |-> NoRequest]
  /\ resultCh' = [c \in Clients |-> <<>>]
  /\ ret' = [c \in Clients |-> "none"]
  /\ expect' = durable'
  /\ lastRet' = [k \in Keys |-> [id |-> arrivals, out |-> durable'[k]]]
  /\ UNCHANGED <<openErr, faults, closed, heapVars, lockVars, pureVars, manifestFile, manifestTmp,
                 arrivals, prefixes>>

\* A recovery that opens the WAL file with the next unused number.
RecoveryWALNext(version) == version.NextWALNumber

\* The WAL Open replays on the recovery path.
RecoveryWAL(version) == version.CurrentWAL

\* Open when MANIFEST exists: ReadManifest, LoadVersion, OpenWAL, replayWAL.
Open ==
  /\ ~up
  /\ ~openErr
  /\ LET version == manifestFile
         no == RecoveryWAL(version)
     IN IF no \notin DOMAIN walFiles \/ ReplayWAL(walFiles[no]).err # "nil"
        THEN /\ openErr' = TRUE
             /\ UNCHANGED <<up, memVars>>
        ELSE /\ up' = TRUE
             /\ current' = version
             /\ wal' = [no |-> no, open |-> TRUE]
             /\ memtable' = ReplayWAL(walFiles[no]).mt
             /\ nextSeq' = ReplayWAL(walFiles[no]).maxSeq
             /\ UNCHANGED <<openErr, newWAL>>
  /\ crashPc' = "none"
  /\ UNCHANGED <<faults, closed, heapVars, lockVars, pureVars, workerVars, diskVars, writeChan,
                 clientVars, histVars>>

(***************************************************************************)
(* Specifications.                                                         *)
(***************************************************************************)
Next ==
  \/ \E c \in Clients, key \in Keys, value \in NewValues : Put(c, key, value)
  \/ \E c \in Clients, key \in Keys : Delete(c, key)
  \/ \E c \in Clients : Return(c)
  \/ \E key \in Keys : Get(key)
  \/ CollectFirst
  \/ CollectMore
  \/ ProcessBatchBegin
  \/ AssignSeqs
  \/ WalWriteEntry
  \/ WalSync
  \/ MemtableUpdate
  \/ Reply
  \/ FlushCreateWAL
  \/ WriteSSTableCreate
  \/ WriteSSTableWrite
  \/ ManifestFlushTmp
  \/ ManifestFlushRename
  \/ FlushSwap

\* Operation without kills.
Spec == Init /\ [][Next]_vars

CrashNext ==
  \/ Next
  \/ Crash
  \/ Open

\* Operation with kills at any point and recovery by Open.
CrashSpec == Init /\ [][CrashNext]_vars

PowerNext ==
  \/ Next
  \/ PowerLoss
  \/ Open

\* Operation with power losses at any point and recovery by Open.
PowerSpec == Init /\ [][PowerNext]_vars

CloseNext == Next \/ Close

\* Operation in which Close may be called at any time.
CloseSpec == Init /\ [][CloseNext]_vars

VersionNext ==
  \/ VersionCurrent
  \/ \E num \in 1..MaxEdits : ManifestSetWAL(num)
  \/ \E edit \in VersionEdits(versions[Len(versions)]) : ManifestApply(edit)

\* A Manifest under SetWAL and Apply with a reader holding a Version.
VersionSpec == Init /\ [][VersionNext]_vars

FaultNext ==
  \/ Next
  \/ FlushCreateWALFails
  \/ WriteSSTableCreateFails
  \/ WriteSSTableWriteFails
  \/ ManifestFlushFails
  \/ WalWriteFails
  \/ ReplyError

\* Operation in which any file operation of the write path may fail.
FaultSpec == Init /\ [][FaultNext]_vars

\* The steps of the group-commit goroutine that do not depend on a failure.
WorkerStep ==
  \/ CollectFirst
  \/ CollectMore
  \/ ProcessBatchBegin
  \/ AssignSeqs
  \/ WalWriteEntry
  \/ WalSync
  \/ MemtableUpdate
  \/ Reply
  \/ ReplyError
  \/ FlushCreateWAL
  \/ WriteSSTableCreate
  \/ WriteSSTableWrite
  \/ ManifestFlushTmp
  \/ ManifestFlushRename
  \/ FlushSwap

\* FaultNext with at most MaxLiveCalls requests.
LiveNext ==
  \/ /\ arrivals < MaxLiveCalls
     /\ \E c \in Clients, key \in Keys, value \in NewValues : Put(c, key, value)
  \/ /\ arrivals < MaxLiveCalls
     /\ \E c \in Clients, key \in Keys : Delete(c, key)
  \/ \E c \in Clients : Return(c)
  \/ WorkerStep
  \/ FlushCreateWALFails
  \/ WriteSSTableCreateFails
  \/ WriteSSTableWriteFails
  \/ ManifestFlushFails
  \/ WalWriteFails

\* Failing file operations with the scheduler's guarantee: the worker
\* goroutine and every caller blocked on a channel that has a value keep
\* being scheduled.
LiveSpec ==
  /\ Init
  /\ [][LiveNext]_vars
  /\ WF_vars(WorkerStep)
  /\ \A c \in Clients : WF_vars(Return(c))


(***************************************************************************)
(* Properties.                                                             *)
(***************************************************************************)
\* No call is in progress: every caller has its result and the worker waits
\* for a request.
Quiescent ==
  /\ up
  /\ wpc = "recv"
  /\ writeChan = <<>>
  /\ \A c \in Clients : cpc[c] = "idle"

\* d.mu is free, so a Get can take its read lock.
GetCanRun == up /\ wpc \notin LockedPcs

\* The view a reader has of all keys.
View == [k \in Keys |-> GetResult(k)]

\* The tables of a level that open and hold a record for key, by position.
Holders(level, key) ==
  {i \in 1..Len(current.Levels[level]) :
     /\ TableOpens(sstFiles, level, current.Levels[level][i].FileNo)
     /\ TableGet(sstFiles[<<level, current.Levels[level][i].FileNo>>], key) # 0}

\* The record for key in the table at position i of a level.
RecordAt(level, i, key) ==
  LET f == sstFiles[<<level, current.Levels[level][i].FileNo>>]
  IN f.entries[TableGet(f, key)]

\* Some table of some level holds a Put for key.
SomeTableHoldsPut(key) ==
  \E l \in Levels : \E i \in Holders(l, key) :
    RecordAt(l, i, key).Type = EntryTypePut

\* The entries of a WAL file that are whole frames.
WholeFrames(n) == SelectSeq(walFiles[n], LAMBDA f : ~f.torn)

\* C1: once a sequence of successful put/delete calls on a freshly opened DB
\* has completed, with any number of flushes in between, get(k) returns v for
\* every key whose latest operation is put(k, v) and NotFound for every key
\* whose latest operation is delete(k) or that was never written.
C1_RoundTrip == Quiescent => \A k \in Keys : GetResult(k) = expect[k]

\* C1 happens: calls have completed across a flush, one key reads its latest
\* value and another, whose Put is still in a table, was deleted.
C1_Witness ==
  /\ Quiescent
  /\ Len(current.Levels[0]) > 0
  /\ \E k \in Keys : GetResult(k).err = "nil"
  /\ \E k \in Keys : expect[k] = NotFound /\ SomeTableHoldsPut(k)

\* The writes to key that were sent after the last returned one and whose
\* call has not returned.
LaterInFlight(key) ==
  {c \in Clients : /\ cpc[c] = "waiting"
                   /\ creq[c].Key = key
                   /\ creq[c].id > lastRet[key].id}

\* C2: with concurrent writers and readers, a get(k) that starts after a
\* put(k, v) or delete(k) returned success observes that write or a later
\* write to k; once all writers have completed, every key reads as its last
\* returned write.
C2_ReadYourWrites ==
  GetCanRun =>
    \A k \in Keys :
      \/ GetResult(k) = lastRet[k].out
      \/ \E c \in LaterInFlight(k) :
           GetResult(k) = Outcome(creq[c].Type, creq[c].Value)

\* C2 happens: after a flush, a get can run while a write that has returned
\* is already superseded by a later write still in flight.
C2_Witness ==
  /\ GetCanRun
  /\ Len(current.Levels[0]) > 0
  /\ \E k \in Keys : /\ lastRet[k].id > 0
                     /\ LaterInFlight(k) # {}
                     /\ GetResult(k) # lastRet[k].out

\* A step taken inside the flush keeps the lock and every key's read result.
FlushStepKeepsView ==
  wpc \in FlushPcs =>
    /\ wpc' \in LockedPcs
    /\ \A k \in Keys : GetResult(k)' = GetResult(k)

\* C3: a get never observes a partial flush: the flush holds d.mu from its
\* first step to the return of processBatch, and no step of the flush changes
\* what get returns for any key, so the state a get sees before the flush and
\* the state it sees after it agree on every committed key.
C3_FlushAtomic == [][FlushStepKeepsView]_vars

\* C3 happens: a flush has completed, the lock is free, and a key that the
\* new memtable lacks is read from the new table.
C3_Witness ==
  /\ GetCanRun
  /\ Len(current.Levels[0]) > 0
  /\ \E k \in Keys : ~MemHas(memtable, k) /\ GetResult(k).err = "nil"

\* The position in L0 of the table with the largest file number among those
\* holding key.
LargestFileNo(key) ==
  CHOOSE i \in Holders(0, key) :
    \A j \in Holders(0, key) :
      current.Levels[0][j].FileNo <= current.Levels[0][i].FileNo

\* C4: if L0 has tables A (smaller file number) and B (larger file number)
\* that both hold key k and the memtable has no entry for k, get(k) returns
\* the value recorded in B, or NotFound if B's record is a tombstone.
C4_L0NewestWins ==
  up =>
    \A k \in Keys :
      (~MemHas(memtable, k) /\ Cardinality(Holders(0, k)) >= 2) =>
        LET rec == RecordAt(0, LargestFileNo(k), k)
        IN GetResult(k) = Outcome(rec.Type, rec.Value)

\* C4 happens: two L0 tables hold the same key and the memtable does not.
C4_Witness ==
  /\ GetCanRun
  /\ \E k \in Keys : ~MemHas(memtable, k) /\ Cardinality(Holders(0, k)) >= 2

\* The first source holding a record for key in the order memtable, L0 from
\* the last table added to the first, then the higher levels in order.
FirstLevel(key) == CHOOSE l \in Levels :
  Holders(l, key) # {} /\ \A m \in Levels : Holders(m, key) # {} => l <= m

FirstInLevel(l, key) ==
  IF l = 0
  THEN CHOOSE i \in Holders(l, key) : \A j \in Holders(l, key) : j <= i
  ELSE CHOOSE i \in Holders(l, key) : \A j \in Holders(l, key) : i <= j

SomeSource(key) ==
  MemHas(memtable, key) \/ \E l \in Levels : Holders(l, key) # {}

FirstRecord(key) ==
  IF MemHas(memtable, key) THEN MemGet(memtable, key)
  ELSE RecordAt(FirstLevel(key), FirstInLevel(FirstLevel(key), key), key)

\* C5: get stops at the first source holding a record for the key (memtable,
\* then L0 newest to oldest, then higher levels): a Put there is returned, a
\* Delete there gives NotFound even when an older table still holds a Put for
\* the key, and a key no source holds is NotFound.
C5_FirstSourceDecides ==
  up =>
    \A k \in Keys :
      IF SomeSource(k)
      THEN GetResult(k) = Outcome(FirstRecord(k).Type, FirstRecord(k).Value)
      ELSE GetResult(k) = NotFound

\* C5 happens: the tombstone itself has been flushed to a table, an older
\* table still holds a Put for the key, and the memtable has no entry for it.
C5_Witness ==
  /\ GetCanRun
  /\ \E k \in Keys :
       /\ ~MemHas(memtable, k)
       /\ Cardinality(Holders(0, k)) >= 2
       /\ FirstRecord(k).Type = EntryTypeDelete
       /\ SomeTableHoldsPut(k)

\* A Put or Delete call of client c with the empty key.
EmptyKeyCall(c) ==
  \/ \E value \in NewValues : Put(c, EmptyKey, value)
  \/ Delete(c, EmptyKey)

\* No request, frame or memtable entry has the empty key.
NoEmptyKeyStored ==
  /\ \A i \in 1..Len(writeChan) : writeChan[i].Key # EmptyKey
  /\ \A i \in 1..Len(batch) : batch[i].Key # EmptyKey
  /\ \A n \in DOMAIN walFiles : \A i \in 1..Len(walFiles[n]) :
       walFiles[n][i].torn \/ walFiles[n][i].Key # EmptyKey
  /\ ~MemHas(memtable, EmptyKey)

\* An empty-key call returns the error and touches none of the write path.
EmptyKeyCallChangesNothing ==
  \A c \in Clients :
    EmptyKeyCall(c) =>
      /\ ret'[c] = "ErrEmptyKey"
      /\ UNCHANGED <<writeChan, nextSeq, walFiles, memtable>>

\* C6: put and delete with an empty key return an invalid-argument error
\* without enqueueing a request: the call consumes no sequence number, appends
\* nothing to the WAL and leaves the memtable unchanged, and no request with
\* an empty key ever reaches the queue, the WAL or the memtable.
C6_EmptyKeyRejected ==
  []NoEmptyKeyStored /\ [][EmptyKeyCallChangesNothing]_vars

\* C6 happens: an empty-key call was rejected on a DB that holds writes.
C6_Witness ==
  /\ up
  /\ \E c \in Clients : ret[c] = "ErrEmptyKey"
  /\ nextSeq > 0
  /\ MemLen(memtable) > 0

\* The worker's batch has its sequence numbers.
SeqsAssigned == wpc \in {"wal_write", "mem_apply", "reply"}

\* How many entries of the batch are in the WAL.
Written == IF wpc = "wal_write" THEN widx ELSE Len(batch)

\* C7: within a batch the requests get consecutive increasing seq values in
\* the order they arrived at the worker; every entry of a later batch has a
\* seq greater than every entry of an earlier batch; and within one WAL file
\* the entries appear in strictly increasing seq order.
C7_SeqOrder ==
  /\ SeqsAssigned =>
       /\ \A i \in 1..(Len(batch) - 1) :
            /\ batch[i + 1].Seq = batch[i].Seq + 1
            /\ batch[i + 1].id > batch[i].id
       /\ \A n \in DOMAIN walFiles : \A i \in 1..Len(walFiles[n]) :
            \/ walFiles[n][i].Seq < batch[1].Seq
            \/ \E j \in 1..Written : walFiles[n][i] = Frame(batch[j])
  /\ \A n \in DOMAIN walFiles :
       \A i, j \in 1..Len(walFiles[n]) :
         i < j => walFiles[n][i].Seq < walFiles[n][j].Seq
  /\ \A n, m \in DOMAIN walFiles :
       n < m => \A i \in 1..Len(walFiles[n]) : \A j \in 1..Len(walFiles[m]) :
                  walFiles[n][i].Seq < walFiles[m][j].Seq

\* C7 happens: a batch of two requests got its seqs after an earlier batch,
\* and a WAL file holds several entries.
C7_Witness ==
  /\ wpc = "reply"
  /\ Len(batch) = 2
  /\ batch[1].Seq > 1
  /\ \E n \in DOMAIN walFiles : Len(walFiles[n]) >= 2

\* The seqs a batch receives exceed the seq of every frame in every WAL file.
NewSeqsExceedCommitted ==
  AssignSeqs =>
    \A n \in DOMAIN walFiles : \A i \in 1..Len(WholeFrames(n)) :
      \A j \in 1..Len(batch') : WholeFrames(n)[i].Seq < batch'[j].Seq

\* C8: sequence monotonicity holds across a reopen: every write that gets its
\* seq receives one strictly greater than the seq of every entry committed
\* before, whichever WAL file holds it and also when the entry has already
\* been flushed to a table.
C8_SeqMonotonicAcrossReopen == [][NewSeqsExceedCommitted]_vars

\* C9: after a kill at any point of any file operation the DB can be
\* reopened, and what it then exposes is the state after some prefix of the
\* committed writes.
C9_KillExposesPrefix ==
  /\ ~openErr
  /\ GetCanRun => View \in prefixes

\* The kill came during a flush, after the new WAL file and the new table
\* file were created and before MANIFEST.tmp was renamed.
KilledBeforeRename == ~up /\ crashPc \in {"fl_sstwrite", "fl_tmp", "fl_rename"}

\* The table file the flush in progress at the kill had created.
OrphanSST == <<0, manifestFile.NextSSTableNumber>>

\* The step out of a kill taken before the rename: Open and what it recovers.
ReopenAfterKillBeforeRename ==
  KilledBeforeRename =>
    /\ up'
    /\ \A k \in Keys : GetResult(k)' = durable[k]
    /\ \A i \in 1..Len(current'.Levels[0]) :
         <<0, current'.Levels[0][i].FileNo>> # OrphanSST

\* C10: after a kill during a flush, with the new WAL and the new table file
\* created but MANIFEST not yet renamed, reopening succeeds, every write
\* committed before the flush reads with its latest value, and no level of
\* the recovered Version names the orphan table.
C10_KillBeforeRename == [][ReopenAfterKillBeforeRename]_vars

\* C10 happens: the DB is up after such a kill, the orphan table file is on
\* disk beside the MANIFEST that does not name it, and committed keys read.
C10_Witness ==
  /\ Quiescent
  /\ OrphanSST \in DOMAIN sstFiles
  /\ manifestFile.NextWALNumber \in DOMAIN walFiles
  /\ \E k \in Keys : GetResult(k).err = "nil"
  /\ \E k \in Keys : durable[k] = NotFound /\ MemHas(memtable, k)


\* The WAL the MANIFEST names ends in a frame cut short, and the process is
\* down with Open still to run.
TornTail ==
  /\ ~up
  /\ ~openErr
  /\ RecoveryWAL(manifestFile) \in DOMAIN walFiles
  /\ WalRead(walFiles[RecoveryWAL(manifestFile)]).err = "ErrIncompleteEntry"

\* Open over a torn tail succeeds with the entries decoded before it.
ReplayKeepsEntriesBeforeTornFrame ==
  TornTail =>
    /\ up'
    /\ memtable' = MemApplyAll(NewMapMemtable,
                     WalRead(walFiles[RecoveryWAL(manifestFile)]).entries)

\* C11: WAL replay stops at the first torn frame: every entry decoded before
\* it is applied to the memtable, the DB opens successfully with those
\* entries visible, and the torn frame and what follows are discarded.
C11_ReplayStopsAtTornFrame == [][ReplayKeepsEntriesBeforeTornFrame]_vars


\* The table files a Version names.
Referenced(v) ==
  UNION {{<<l, v.Levels[l][i].FileNo>> : i \in 1..Len(v.Levels[l])} :
           l \in Levels}

\* C12: in every flush the new table file is completely written and fsync'd
\* before the in-memory Version or the MANIFEST checkpoint names it, and no
\* file a Version names has been deleted.
C12_SyncedBeforeReferenced ==
  \A p \in Referenced(current) \cup Referenced(manifestFile) :
    /\ p \in DOMAIN sstFiles
    /\ sstFiles[p].complete
    /\ sstFiles[p].synced


\* A step in which flushMemtable returns an error.
FlushFails == wpc \in FlushPcs /\ wpc' = "reply_err"

\* The read results, the memtable and the WAL handle after a failed flush
\* are those of the state the flush started from.
FlushFailureKeepsState ==
  FlushFails =>
    /\ memtable' = memtable
    /\ wal'.open
    /\ wal'.no = manifestFile.CurrentWAL
    /\ \A k \in Keys \ {EmptyKey} : GetResult(k)' = GetResult(k)

\* C13: when a step of the flush fails, the batch fails and the DB stays in
\* its pre-flush state: the memtable holds all its entries, the current WAL
\* is unchanged and still the one the DB appends to, and reads are as before.
C13_FlushFailureKeepsState == [][FlushFailureKeepsState]_vars


\* A step in which Manifest.Flush returns an error.
ManifestFlushError == wpc \in {"fl_tmp", "fl_rename"} /\ wpc' = "reply_err"

\* MANIFEST holds the Version of the last completed flush, which is the
\* Version the failing flush started from.
ManifestFlushFailureKeepsVersion ==
  ManifestFlushError =>
    /\ current'.CurrentWAL = manifestFile.CurrentWAL
    /\ current'.Levels = manifestFile.Levels
    /\ current'.NextWALNumber = manifestFile.NextWALNumber
    /\ current'.NextSSTableNumber = manifestFile.NextSSTableNumber

\* C14: when Manifest.Flush fails during a memtable flush the current
\* Version is not swapped: Current() returns the pre-flush Version, with the
\* same CurrentWAL, level lists, NextWALNumber and NextSSTableNumber.
C14_ManifestFlushFailureKeepsVersion ==
  [][ManifestFlushFailureKeepsVersion]_vars


\* A step in which d.wal.WriteEntry returns an error.
WalWriteError == wpc = "wal_write" /\ faults' # faults

\* A worker step while the failed batch is being answered.
ErrorReplyStep == wpc = "reply_err" /\ <<wpc, widx>>' # <<wpc, widx>>

\* A put whose caller has been sent an error is not what a get returns
\* (every put carries a value of its own).
FailedPutInvisible ==
  \A c \in Clients :
    (/\ cpc[c] = "waiting"
     /\ resultCh[c] = <<"err">>
     /\ creq[c].Type = EntryTypePut) =>
      GetResult(creq[c].Key) # Outcome(EntryTypePut, creq[c].Value)

WalWriteFailureFailsBatch ==
  /\ WalWriteError =>
       /\ wpc' = "reply_err"
       /\ widx' = 0
       /\ batch' = batch
  /\ (WalWriteError \/ wpc = "reply_err") =>
       /\ memtable' = memtable
       /\ \A k \in Keys \ {EmptyKey} : GetResult(k)' = GetResult(k)
  /\ ErrorReplyStep =>
       /\ widx < Len(batch)
       /\ resultCh' = [resultCh EXCEPT ![batch[widx + 1].c] = <<"err">>]
       /\ IF widx + 1 = Len(batch) THEN wpc' = "recv" ELSE widx' = widx + 1
  /\ \A c \in Clients :
       (cpc[c] = "waiting" /\ cpc'[c] = "idle") => ret'[c] = Head(resultCh[c])
  /\ FailedPutInvisible

\* C15: when the WAL write of a batch fails, every requester of the batch
\* receives the error, no entry of the batch is applied to the memtable, and
\* a get returns for every key what it returned before the batch.
C15_WalWriteFailureFailsBatch == [][WalWriteFailureFailsBatch]_vars

\* C15 happens: the WAL write of a batch of two failed after the first frame
\* was written; both callers have returned the error.
C15_Witness ==
  /\ wpc = "recv"
  /\ faults = 1
  /\ wal.open
  /\ \A c \in Clients : cpc[c] = "idle" /\ ret[c] = "err"
  /\ \E i \in 1..Len(walFiles[wal.no]) :
       /\ ~walFiles[wal.no][i].torn
       /\ walFiles[wal.no][i].Type = EntryTypePut
       /\ GetResult(walFiles[wal.no][i].Key) # Found(walFiles[wal.no][i].Value)
       /\ lastRet[walFiles[wal.no][i].Key].id = 0


\* Once Close has returned: the WAL is closed, no step appends to a WAL or
\* changes the memtable, and a put or delete that returns does not return
\* success.
ClosedCommitsNothing ==
  closed =>
    /\ ~wal.open
    /\ walFiles' = walFiles
    /\ memtable' = memtable
    /\ \A c \in Clients :
         (cpc[c] = "waiting" /\ cpc'[c] = "idle") => ret'[c] # "nil"

\* C16: Close closes the current WAL and the manifest and stops the
\* group-commit worker; after it returns no write is committed: requests
\* still enqueued and put/delete calls issued afterwards fail with a
\* closed-db error.
C16_ClosedCommitsNothing == [][ClosedCommitsNothing]_vars


\* The requests of a sequence of requests, by id.
Ids(reqs) == {reqs[i].id : i \in 1..Len(reqs)}

\* A waiting caller's request is in the channel, in the worker's batch, or
\* answered.
NoRequestLost ==
  \A c \in Clients :
    cpc[c] = "waiting" =>
      \/ creq[c].id \in Ids(writeChan) \cup Ids(batch)
      \/ resultCh[c] # <<>>

\* A reply goes to a waiting caller whose channel is empty, is the only one
\* for its request, and tells what happened to the batch: nil after the
\* request's frame was written and synced and the memtable updated, the
\* error after processBatch failed.
RepliesOnce ==
  \A c \in Clients :
    /\ Len(resultCh'[c]) <= 1
    /\ (resultCh'[c] # resultCh[c] /\ resultCh'[c] # <<>>) =>
         /\ cpc[c] = "waiting"
         /\ resultCh[c] = <<>>
         /\ widx < Len(batch)
         /\ batch[widx + 1].id = creq[c].id
         /\ creq[c].id \notin Ids(writeChan') \cup {batch[i].id : i \in 1..widx}
         /\ IF resultCh'[c] = <<"nil">>
            THEN /\ wpc = "reply"
                 /\ \E i \in 1..Len(walFiles[wal.no]) :
                      walFiles[wal.no][i] = Frame(batch[widx + 1])
            ELSE /\ resultCh'[c] = <<"err">>
                 /\ wpc = "reply_err"

\* C17: every request sent on the group-commit channel eventually receives
\* exactly one reply, nil if its batch was committed and the error if it
\* failed; no caller blocks forever, no request is answered twice and none
\* is left neither committed nor failed.
C17_EveryRequestAnswered ==
  /\ []NoRequestLost
  /\ [][RepliesOnce]_vars
  /\ \A c \in Clients :
       (cpc[c] = "waiting") ~> (cpc[c] = "idle" /\ ret[c] \in {"nil", "err"})

\* C17 happens: of two requests that formed one batch, one caller has
\* returned while the other's reply is in its channel.
C17_Witness ==
  \E c, d \in Clients :
    /\ cpc[c] = "idle"
    /\ ret[c] \in {"nil", "err"}
    /\ cpc[d] = "waiting"
    /\ resultCh[d] = <<ret[c]>>
    /\ wpc = "recv"


\* A flush takes its WAL number from NextWALNumber and its table number from
\* NextSSTableNumber, and no file of that number exists when it creates one.
FlushUsesFreshNumbers ==
  /\ (wpc = "fl_createwal" /\ wpc' = "fl_sstcreate") =>
       /\ newWAL' = current.NextWALNumber
       /\ newWAL' \notin DOMAIN walFiles
  /\ (wpc = "fl_sstcreate" /\ wpc' = "fl_sstwrite") =>
       <<0, current.NextSSTableNumber>> \notin DOMAIN sstFiles

\* C18: WAL and table file numbers are never reused during the lifetime of a
\* DB: each flush attempt takes its numbers from NextWALNumber and
\* NextSSTableNumber, and no two files the DB ever created in one category,
\* those left by a failed or killed flush included, get the same number.
C18_FileNumbersNeverReused == [][FlushUsesFreshNumbers]_vars


\* C19: a Version obtained from Current() is never mutated afterwards: every
\* later SetWAL or Apply builds a deep copy and swaps the pointer, so a
\* reader holding the earlier Version keeps seeing the same CurrentWAL, the
\* same files in every level and the same counters.
C19_VersionNeverMutated ==
  held.id # 0 =>
    /\ versions[held.id].CurrentWAL = held.seen.CurrentWAL
    /\ versions[held.id].Levels = held.seen.Levels
    /\ versions[held.id].NextWALNumber = held.seen.NextWALNumber
    /\ versions[held.id].NextSSTableNumber = held.seen.NextSSTableNumber

\* C19 happens: the reader holds a Version with a table in L0; since it
\* took it, SetWAL and an Apply that deletes that table and adds another
\* have replaced the current Version.
C19_Witness ==
  /\ held.id # 0
  /\ Len(held.seen.Levels[0]) = 1
  /\ Len(versions) >= held.id + 2
  /\ versions[Len(versions)].CurrentWAL # held.seen.CurrentWAL
  /\ versions[Len(versions)].NextSSTableNumber # held.seen.NextSSTableNumber
  /\ \A j \in 1..Len(versions[Len(versions)].Levels[0]) :
       versions[Len(versions)].Levels[0][j].FileNo # held.seen.Levels[0][1].FileNo


\* The keys the memtable holds, tombstones included.
MemKeys(m) == DOMAIN m.items

\* The keys of a sequence of entries.
KeysOf(es) == {es[i].Key : i \in 1..Len(es)}

\* The newest table of L0 in a Version.
NewestL0(v) == v.Levels[0][Len(v.Levels[0])]

FlushAtThreshold ==
  \* the flush check at the start of processBatch
  /\ (wpc = "collect" /\ wpc' # "collect") =>
       /\ wpc' = IF Cardinality(MemKeys(memtable)) >= MemtableFlushThreshold
                 THEN "fl_createwal" ELSE "assign"
       /\ memtable' = memtable
  /\ (wpc' \in FlushPcs /\ wpc \notin FlushPcs) => wpc = "collect"
  \* the new WAL takes the Version's NextWALNumber
  /\ (wpc = "fl_createwal" /\ wpc' # wpc) => newWAL' = current.NextWALNumber
  /\ (wpc \in FlushPcs \ {"fl_createwal"}) => newWAL' = newWAL
  /\ (wpc \in FlushPcs /\ wpc' \in FlushPcs) => memtable' = memtable
  \* the end of flushMemtable
  /\ (wpc = "fl_swap" /\ wpc' # wpc) =>
       /\ wpc' = "assign"
       /\ wal' = [no |-> newWAL, open |-> TRUE]
       /\ newWAL \in DOMAIN walFiles'
       /\ walFiles'[newWAL] = <<>>
       /\ current'.CurrentWAL = newWAL
       /\ manifestFile' = current'
       /\ current'.Levels[0] # <<>>
       /\ <<0, NewestL0(current').FileNo>> \in DOMAIN sstFiles'
       /\ sstFiles'[<<0, NewestL0(current').FileNo>>].complete
       /\ sstFiles'[<<0, NewestL0(current').FileNo>>].entries =
            MemIterator(memtable)
       /\ memtable' = NewMapMemtable
  \* the memtable after the first batch of a WAL holds that batch's keys
  /\ (wpc = "mem_apply" /\ wpc' # wpc /\ Len(walFiles[wal.no]) = Len(batch)) =>
       MemKeys(memtable') = KeysOf(batch)

\* C20: a flush runs exactly when, at the start of processing a batch, the
\* memtable holds at least MemtableFlushThreshold distinct keys; after it the
\* WAL numbered with the previous NextWALNumber exists and is the current
\* WAL, the new table exists in L0, and the memtable holds only the keys of
\* the triggering batch.
C20_FlushAtThreshold == [][FlushAtThreshold]_vars

\* C20 happens: after two keys and a triggering put, wal/1.log and
\* sstable/0/0.sst exist and the memtable holds only the triggering key.
C20_Witness ==
  /\ wpc = "reply"
  /\ Len(batch) = 1
  /\ wal = [no |-> 1, open |-> TRUE]
  /\ 1 \in DOMAIN walFiles
  /\ Len(walFiles[1]) = 1
  /\ <<0, 0>> \in DOMAIN sstFiles
  /\ sstFiles[<<0, 0>>].complete
  /\ Len(sstFiles[<<0, 0>>].entries) = MemtableFlushThreshold
  /\ MemKeys(memtable) = {batch[1].Key}


\* The table files when the file at path p cannot be opened.
Unreadable(files, p) == [files EXCEPT ![p].complete = FALSE]

\* The position of table p in its level of the current Version.
PosOf(p) ==
  CHOOSE i \in 1..Len(current.Levels[p[1]]) :
    current.Levels[p[1]][i].FileNo = p[2]

\* Get visits table q before table p.
VisitedBefore(q, p) ==
  \/ q[1] < p[1]
  \/ /\ q[1] = p[1]
     /\ IF p[1] = 0 THEN PosOf(q) > PosOf(p) ELSE PosOf(q) < PosOf(p)

\* A Get for key comes to table p: neither the memtable nor a table visited
\* before p holds the key.
GetReaches(p, key) ==
  /\ ~MemHas(memtable, key)
  /\ \A q \in Referenced(current) :
       VisitedBefore(q, p) =>
         ~(/\ TableOpens(sstFiles, q[1], q[2])
           /\ TableGet(sstFiles[q], key) # 0)

\* C21: get distinguishes absence from failure: when a table of the current
\* Version cannot be opened or read, a get that comes to it returns an I/O
\* error, never NotFound or a value from an older table or level.
C21_UnreadableTableIsError ==
  GetCanRun =>
    \A p \in Referenced(current) : \A k \in Keys \ {EmptyKey} :
      GetReaches(p, k) =>
        DBGet(memtable, current, Unreadable(sstFiles, p), k).err
          \notin {"nil", "NotFound"}


\* The table files a Version names, and no others.
OnlyReferenced(files, v) ==
  [p \in DOMAIN files \cap Referenced(v) |-> files[p]]

\* A step in which Open returns a DB.
Reopened == ~up /\ up'

\* What a reopen finds and uses: every table of the recovered Version and
\* its WAL are on disk, the tables complete; the memtable comes from that
\* WAL alone and reads depend on no other table file.
ReopenFindsItsFiles ==
  Reopened =>
    /\ current' = manifestFile
    /\ \A p \in Referenced(current') :
         p \in DOMAIN sstFiles' /\ sstFiles'[p].complete
    /\ current'.CurrentWAL \in DOMAIN walFiles'
    /\ memtable' = ReplayWAL(walFiles'[current'.CurrentWAL]).mt
    /\ \A k \in Keys \ {EmptyKey} :
         GetResult(k)' =
           DBGet(memtable', current', OnlyReferenced(sstFiles', current'), k)

\* C22: after any reopen, also after a crash at any point, no referenced
\* file is missing: every table in the recovered Version's levels and the
\* WAL named by its CurrentWAL exist on disk with their complete contents,
\* and files the Version does not name are consulted neither by recovery
\* nor by get.
C22_NoReferencedButMissing == [][ReopenFindsItsFiles]_vars


\* MANIFEST lists in L0 a complete table holding the entries of memtable m.
ManifestListsTableOf(m) ==
  \E i \in 1..Len(manifestFile.Levels[0]) :
    LET p == <<0, manifestFile.Levels[0][i].FileNo>>
    IN /\ p \in DOMAIN sstFiles
       /\ sstFiles[p].complete
       /\ sstFiles[p].entries = MemIterator(m)

\* The memtable or the WAL the DB writes to is replaced only by the last
\* step of a flush, when the rename of MANIFEST has happened: MANIFEST then
\* names the new WAL and lists the table with the memtable's entries.
SwapAfterManifestFlush ==
  /\ (MemKeys(memtable) \ MemKeys(memtable') # {} \/ wal'.no # wal.no) =>
       /\ wpc = "fl_swap"
       /\ manifestTmp = NoFile
       /\ manifestFile = current
       /\ manifestFile.CurrentWAL = newWAL
       /\ ManifestListsTableOf(memtable)
       /\ memtable' = NewMapMemtable
       /\ wal' = [no |-> newWAL, open |-> TRUE]
  /\ (wpc \in FlushPcs \ {"fl_swap"}) => memtable' = memtable /\ wal'.no = wal.no

\* C23: within a flush the DB replaces its WAL handle and its memtable only
\* after Manifest.Flush has returned successfully; the old memtable is never
\* discarded while the durable MANIFEST does not list the table that holds
\* its entries.
C23_SwapAfterManifestFlush == [][SwapAfterManifestFlush]_vars

\* C23 happens: a flush whose Manifest.Flush failed was tried again; the
\* second attempt renamed MANIFEST and then swapped memtable and WAL.
C23_Witness ==
  /\ wpc = "assign"
  /\ faults = 1
  /\ memtable = NewMapMemtable
  /\ wal = [no |-> newWAL, open |-> TRUE]
  /\ manifestFile = current
  /\ Len(manifestFile.Levels[0]) = 2
  /\ sstFiles[<<0, 0>>].entries = sstFiles[<<0, 1>>].entries


\* The table files no Sync has covered.
UnsyncedTables == {p \in DOMAIN sstFiles : ~sstFiles[p].synced}

\* A power loss now can tear the WAL after kept of its unsynced frames.
CanTear(kept) ==
  wpc = "wal_write" /\ wal.open /\ (kept < UnsyncedFrames \/ widx < Len(batch))

\* On the files wf and sf Open succeeds and every key reads as its last
\* acknowledged write or as a write that arrived after it.
HoldsAcknowledged(wf, sf) ==
  /\ manifestFile.CurrentWAL \in DOMAIN wf
  /\ ReplayWAL(wf[manifestFile.CurrentWAL]).err = "nil"
  /\ \A k \in Keys \ {EmptyKey} :
       \/ Recovered(wf, sf)[k] = lastRet[k].out
       \/ \E c \in LaterInFlight(k) :
            Recovered(wf, sf)[k] = Outcome(creq[c].Type, creq[c].Value)

\* C24: every write whose put/delete returned success remains visible after
\* a crash at any later point and a reopen, when only fsync'd data is sure to
\* survive: at every instant the durable MANIFEST, the WAL it names and the
\* tables it lists together contain every acknowledged write.
C24_AcknowledgedWritesDurable ==
  up =>
    \A lost \in SUBSET UnsyncedTables :
      \A kept \in 0..UnsyncedFrames : \A tear \in BOOLEAN :
        (tear => CanTear(kept)) =>
          HoldsAcknowledged(WalsAfterLoss(kept, tear), TablesAfterLoss(lost))


\* The put of caller c has been answered with an error.
PutFailed(c) ==
  /\ cpc[c] = "waiting"
  /\ resultCh[c] = <<"err">>
  /\ creq[c].Type = EntryTypePut

\* C25: a put/delete whose call returned an error, because the WAL write of
\* its batch or the flush before it failed, is never observed by a later
\* get, neither in the same process nor after a crash or clean restart that
\* replays the WAL.
C25_FailedWriteNeverObserved ==
  \A c \in Clients :
    PutFailed(c) =>
      /\ GetResult(creq[c].Key) # Found(creq[c].Value)
      /\ Recovered(walFiles, sstFiles)[creq[c].Key] # Found(creq[c].Value)


(***************************************************************************)
(* The goroutines at the level of their blocking operations: DB.mu,        *)
(* Manifest.mu, writeChan and resultCh.  Data is left out; writeChan holds  *)
(* MaxQueued requests here so that a sender can find it full, and a Get     *)
(* visits at most MaxFiles files.                                          *)
(***************************************************************************)
dataVars == <<up, openErr, crashPc, faults, closed, heapVars, memVars, workerVars,
              clientVars, diskVars, writeChan, histVars>>

\* Put/Delete: the call has built its request and reaches d.writeChan <- req.
SenderCall(p) ==
  /\ lpc[p] = "idle"
  /\ lpc' = [lpc EXCEPT ![p] = "p_send"]
  /\ UNCHANGED <<dmu, mmu, lq, dataVars, pureVars>>

\* d.writeChan <- req
SenderSend(p) ==
  /\ lpc[p] = "p_send"
  /\ Len(lq.chan) < MaxQueued
  /\ lq' = [lq EXCEPT !.chan = Append(@, p)]
  /\ lpc' = [lpc EXCEPT ![p] = "p_recv"]
  /\ UNCHANGED <<dmu, mmu, dataVars, pureVars>>

\* return <-req.resultCh
SenderReturn(p) ==
  /\ lpc[p] = "p_recv"
  /\ lq.res[p] > 0
  /\ lq' = [lq EXCEPT !.res[p] = @ - 1]
  /\ lpc' = [lpc EXCEPT ![p] = "idle"]
  /\ UNCHANGED <<dmu, mmu, dataVars, pureVars>>

\* Get: d.mu.RLock()
GetRLock(g) ==
  /\ lpc[g] = "idle"
  /\ dmu' = RLock(dmu, g)
  /\ lpc' = [lpc EXCEPT ![g] = "g_rlock"]
  /\ UNCHANGED <<mmu, lq, dataVars, pureVars>>

\* Get: the memtable missed; d.manifest.Current() takes m.mu.RLock()
GetCurrentRLock(g) ==
  /\ lpc[g] = "g_rlock"
  /\ g \in dmu.r
  /\ mmu' = RLock(mmu, g)
  /\ lpc' = [lpc EXCEPT ![g] = "g_current"]
  /\ UNCHANGED <<dmu, lq, dataVars, pureVars>>

\* Current returns: m.mu.RUnlock()
GetCurrentRUnlock(g) ==
  /\ lpc[g] = "g_current"
  /\ g \in mmu.r
  /\ mmu' = RUnlock(mmu, g)
  /\ lpc' = [lpc EXCEPT ![g] = "g_files"]
  /\ UNCHANGED <<dmu, lq, dataVars, pureVars>>

\* Get: the next file of the loop; d.manifest.GetTable calls m.mu.Lock()
GetTableLock(g) ==
  /\ lpc[g] = "g_files"
  /\ lq.files[g] < MaxFiles
  /\ mmu' = Lock(mmu, g)
  /\ lq' = [lq EXCEPT !.files[g] = @ + 1]
  /\ lpc' = [lpc EXCEPT ![g] = "g_lock"]
  /\ UNCHANGED <<dmu, dataVars, pureVars>>

\* m.mu.Lock() returns
GetTableLocked(g) ==
  /\ lpc[g] = "g_lock"
  /\ CanLock(mmu, g)
  /\ mmu' = Locked(mmu, g)
  /\ lpc' = [lpc EXCEPT ![g] = "g_table"]
  /\ UNCHANGED <<dmu, lq, dataVars, pureVars>>

\* GetTable returns: m.mu.Unlock()
GetTableUnlock(g) ==
  /\ lpc[g] = "g_table"
  /\ mmu' = Unlock(mmu, g)
  /\ lpc' = [lpc EXCEPT ![g] = "g_files"]
  /\ UNCHANGED <<dmu, lq, dataVars, pureVars>>

\* Get returns (from the memtable or after the files): d.mu.RUnlock()
GetRUnlock(g) ==
  /\ \/ lpc[g] = "g_rlock" /\ g \in dmu.r
     \/ lpc[g] = "g_files"
  /\ dmu' = RUnlock(dmu, g)
  /\ lq' = [lq EXCEPT !.files[g] = 0]
  /\ lpc' = [lpc EXCEPT ![g] = "idle"]
  /\ UNCHANGED <<mmu, dataVars, pureVars>>

\* collectBatch: first := <-d.writeChan
LockCollectFirst ==
  /\ lpc[WorkerId] = "w_recv"
  /\ lq.chan # <<>>
  /\ lq' = [lq EXCEPT !.batch = <<Head(lq.chan)>>, !.chan = Tail(@)]
  /\ lpc' = [lpc EXCEPT ![WorkerId] = "w_more"]
  /\ UNCHANGED <<dmu, mmu, dataVars, pureVars>>

\* collectBatch: case req := <-d.writeChan
LockCollectMore ==
  /\ lpc[WorkerId] = "w_more"
  /\ BatchHasRoom(lq.batch)
  /\ lq.chan # <<>>
  /\ lq' = [lq EXCEPT !.batch = Append(@, Head(lq.chan)), !.chan = Tail(@)]
  /\ UNCHANGED <<dmu, mmu, lpc, dataVars, pureVars>>

\* collectBatch returns; processBatch: d.mu.Lock()
WorkerLock ==
  /\ lpc[WorkerId] = "w_more"
  /\ ~(BatchHasRoom(lq.batch) /\ lq.chan # <<>>)
  /\ dmu' = Lock(dmu, WorkerId)
  /\ lpc' = [lpc EXCEPT ![WorkerId] = "w_lock"]
  /\ UNCHANGED <<mmu, lq, dataVars, pureVars>>

\* d.mu.Lock() returns; the batch is written and applied
WorkerLocked ==
  /\ lpc[WorkerId] = "w_lock"
  /\ CanLock(dmu, WorkerId)
  /\ dmu' = Locked(dmu, WorkerId)
  /\ lpc' = [lpc EXCEPT ![WorkerId] = "w_apply"]
  /\ UNCHANGED <<mmu, lq, dataVars, pureVars>>

\* flushMemtable: the next Manifest method takes m.mu
WorkerManifestCall ==
  /\ lpc[WorkerId] \in {"w_apply", "w_flush"}
  /\ mmu' = IF FlushLocks[lq.lf + 1] = "r" THEN RLock(mmu, WorkerId)
                                          ELSE Lock(mmu, WorkerId)
  /\ lpc' = [lpc EXCEPT ![WorkerId] = "w_mlock"]
  /\ UNCHANGED <<dmu, lq, dataVars, pureVars>>

\* the Manifest method has m.mu
WorkerManifestLocked ==
  /\ lpc[WorkerId] = "w_mlock"
  /\ IF FlushLocks[lq.lf + 1] = "r"
       THEN WorkerId \in mmu.r /\ mmu' = mmu
       ELSE CanLock(mmu, WorkerId) /\ mmu' = Locked(mmu, WorkerId)
  /\ lpc' = [lpc EXCEPT ![WorkerId] = "w_mheld"]
  /\ UNCHANGED <<dmu, lq, dataVars, pureVars>>

\* the Manifest method releases m.mu and returns
WorkerManifestReturn ==
  /\ lpc[WorkerId] = "w_mheld"
  /\ mmu' = IF FlushLocks[lq.lf + 1] = "r" THEN RUnlock(mmu, WorkerId)
                                          ELSE Unlock(mmu, WorkerId)
  /\ lq' = [lq EXCEPT !.lf = @ + 1]
  /\ lpc' = [lpc EXCEPT ![WorkerId] =
               IF lq.lf + 1 = Len(FlushLocks) THEN "w_unlock" ELSE "w_flush"]
  /\ UNCHANGED <<dmu, dataVars, pureVars>>

\* processBatch returns (no flush, or after it): the deferred d.mu.Unlock()
WorkerUnlock ==
  /\ lpc[WorkerId] \in {"w_apply", "w_unlock"}
  /\ dmu' = Unlock(dmu, WorkerId)
  /\ lq' = [lq EXCEPT !.lf = 0]
  /\ lpc' = [lpc EXCEPT ![WorkerId] = "w_reply"]
  /\ UNCHANGED <<mmu, dataVars, pureVars>>

\* groupCommitLoop: req.resultCh <- err
WorkerReply ==
  /\ lpc[WorkerId] = "w_reply"
  /\ lq.res[Head(lq.batch)] < ReplyCap
  /\ lq' = [lq EXCEPT !.res[Head(lq.batch)] = @ + 1, !.batch = Tail(@)]
  /\ lpc' = [lpc EXCEPT ![WorkerId] =
               IF Len(lq.batch) = 1 THEN "w_recv" ELSE "w_reply"]
  /\ UNCHANGED <<dmu, mmu, dataVars, pureVars>>

LockWorkerStep ==
  \/ LockCollectFirst
  \/ LockCollectMore
  \/ WorkerLock
  \/ WorkerLocked
  \/ WorkerManifestCall
  \/ WorkerManifestLocked
  \/ WorkerManifestReturn
  \/ WorkerUnlock
  \/ WorkerReply

GetStep(g) ==
  \/ GetRLock(g)
  \/ GetCurrentRLock(g)
  \/ GetCurrentRUnlock(g)
  \/ GetTableLock(g)
  \/ GetTableLocked(g)
  \/ GetTableUnlock(g)
  \/ GetRUnlock(g)

LockNext ==
  \/ LockWorkerStep
  \/ \E g \in Getters : GetStep(g)
  \/ \E p \in Senders : SenderCall(p) \/ SenderSend(p) \/ SenderReturn(p)

\* A goroutine inside a call keeps running; sync.Mutex hands a starving
\* waiter the lock and a channel serves its blocked senders in order.
LockFairness ==
  /\ WF_vars(LockWorkerStep)
  /\ \A g \in Getters :
       /\ WF_vars(GetCurrentRLock(g) \/ GetCurrentRUnlock(g) \/ GetTableLock(g)
                    \/ GetTableUnlock(g) \/ GetRUnlock(g))
       /\ SF_vars(GetTableLocked(g))
  /\ \A p \in Senders : SF_vars(SenderSend(p)) /\ WF_vars(SenderReturn(p))

LockSpec == Init /\ [][LockNext]_vars /\ LockFairness


\* Where a goroutine rests between calls: the worker in collectBatch's first
\* receive, every other goroutine outside the DB.
RestsAt(p) == IF p = WorkerId THEN "w_recv" ELSE "idle"

Holds(L, p) == p \in L.w \cup L.r

Wants(L, p) == p \in L.w \cup L.r \cup L.pend \cup L.rw

\* Whoever is at Manifest.mu holds DB.mu already, and nobody asks for DB.mu
\* with Manifest.mu in hand.
LockOrder ==
  \A p \in Goroutines :
    /\ Wants(mmu, p) => Holds(dmu, p)
    /\ (p \in dmu.pend \cup dmu.rw) => ~Wants(mmu, p)

\* The reply channel of the request being answered has room.
ReplyHasRoom ==
  lpc[WorkerId] = "w_reply" => lq.res[Head(lq.batch)] < ReplyCap

\* A sender that found writeChan full.
SenderBlocked(p) == lpc[p] = "p_send" /\ Len(lq.chan) = MaxQueued

\* C26: no interleaving of gets, puts, deletes and the worker (flushes
\* included) deadlocks: DB.mu is taken before Manifest.mu and never the other
\* way round, the worker's reply always finds room in the reply channel, a
\* sender blocked on a full writeChan gets its request in, and every call
\* and every batch runs to its end.
C26_NoDeadlock ==
  /\ [](LockOrder /\ ReplyHasRoom)
  /\ \A p \in Senders : SenderBlocked(p) ~> (lpc[p] = "p_recv")
  /\ \A p \in Goroutines : (lpc[p] # RestsAt(p)) ~> (lpc[p] = RestsAt(p))

\* A sender is blocked on the full channel while the worker waits for DB.mu
\* behind one Get that is inside GetTable and another that queues behind
\* the worker.
C26_Witness ==
  /\ \E p \in Senders : SenderBlocked(p)
  /\ lpc[WorkerId] = "w_lock"
  /\ \E g \in Getters : lpc[g] = "g_table" /\ g \in dmu.r
  /\ dmu.rw # {}


\* How often p occurs in a sequence of requests.
Occurrences(reqs, p) == Cardinality({i \in 1..Len(reqs) : reqs[i] = p})

\* The worker has a batch in hand exactly outside collectBatch's first
\* receive, and it holds between one and MaxBatchSize requests.
BatchSized ==
  IF lpc[WorkerId] = "w_recv" THEN lq.batch = <<>>
  ELSE Len(lq.batch) \in 1..MaxBatchSize

\* Inside collectBatch's loop the worker can always move: it takes a queued
\* request or returns.
CollectNeverWaits ==
  lpc[WorkerId] = "w_more" => ENABLED (LockCollectMore \/ WorkerLock)

\* A request a caller waits for is in the channel once, or in the batch
\* once, or answered once, and in no two of these.
InExactlyOneBatch ==
  \A p \in Senders :
    Occurrences(lq.chan, p) + Occurrences(lq.batch, p) + lq.res[p]
      = (IF lpc[p] = "p_recv" THEN 1 ELSE 0)

\* The batch starts as the channel's head, grows only by the channel's next
\* head while it has room, is handed to processBatch unchanged and only with
\* the channel empty or the batch full, and requests leave the channel only
\* this way.
BatchFormedInOrder ==
  /\ (lpc[WorkerId] = "w_recv" /\ lpc'[WorkerId] # "w_recv") =>
       /\ lq.chan # <<>>
       /\ lq'.batch = <<Head(lq.chan)>>
       /\ lq'.chan = Tail(lq.chan)
  /\ (lpc[WorkerId] = "w_more" /\ lq'.batch # lq.batch) =>
       /\ Len(lq.batch) < MaxBatchSize
       /\ lq.chan # <<>>
       /\ lq'.batch = Append(lq.batch, Head(lq.chan))
       /\ lq'.chan = Tail(lq.chan)
  /\ (lpc[WorkerId] = "w_more" /\ lpc'[WorkerId] # "w_more") =>
       /\ lq'.batch = lq.batch
       /\ lq'.chan = lq.chan
       /\ Len(lq.batch) = MaxBatchSize \/ lq.chan = <<>>
  /\ (lpc[WorkerId] \notin {"w_recv", "w_more", "w_reply"}) => lq'.batch = lq.batch
  /\ (Len(lq'.chan) < Len(lq.chan)) => lpc[WorkerId] \in {"w_recv", "w_more"}
  /\ (Len(lq'.chan) > Len(lq.chan)) =>
       \E p \in Senders : lpc[p] = "p_send" /\ lq'.chan = Append(lq.chan, p)

OpenFresh ==
  /\ ~up
  /\ ~openErr
  /\ faults < MaxFaults
  /\ faults' = faults + 1
  /\ up' = TRUE
  /\ crashPc' = "none"
  /\ current' = SetWAL(NewManifest, NewManifest.NextWALNumber)
  /\ walFiles' = [n \in DOMAIN walFiles \cup {NewManifest.NextWALNumber} |->
                    IF n = NewManifest.NextWALNumber THEN <<>> ELSE walFiles[n]]
  /\ wal' = [no |-> NewManifest.NextWALNumber, open |-> TRUE]
  /\ manifestFile' = current'
  /\ manifestTmp' = NoFile
  /\ memtable' = NewMapMemtable
  /\ nextSeq' = 0
  /\ durable' = NoKeys
  /\ expect' = NoKeys
  /\ lastRet' = [k \in Keys |-> [id |-> arrivals, out |-> NotFound]]
  /\ UNCHANGED <<openErr, closed, heapVars, lockVars, pureVars, newWAL, workerVars, sstFiles,
                 writeChan, clientVars, arrivals, prefixes>>

OpenNext ==
  \/ CrashNext
  \/ OpenFresh

\* Operation with kills, recovery by Open, and an Open that cannot open
\* MANIFEST.
OpenSpec == Init /\ [][OpenNext]_vars

\* An Open call returns.
OpenReturns == ~up /\ (up' \/ (openErr' /\ ~openErr))

\* With MANIFEST in place, Open recovers from it or returns an error, and
\* either way leaves every WAL and MANIFEST as they were.
OpenKeepsFiles ==
  OpenReturns =>
    /\ walFiles' = walFiles
    /\ manifestFile' = manifestFile
    /\ up' => current' = manifestFile

\* C28: Open takes the fresh-database path (WAL 0 created with truncation,
\* an initial MANIFEST written, nextSeq 0) only when no MANIFEST exists; with
\* a MANIFEST that cannot be opened or parsed it returns an error and
\* modifies neither a WAL nor MANIFEST.
C28_FreshOnlyWithoutManifest == [][OpenKeepsFiles]_vars


\* The last frame of a WAL that writes key.
IsLatestFrame(frames, j, key) ==
  /\ ~frames[j].torn
  /\ frames[j].Key = key
  /\ \A l \in (j + 1)..Len(frames) : frames[l].torn \/ frames[l].Key # key

\* Every entry of the table is, seq included, the latest write of its key in
\* the WAL the flushed memtable was logged to.
CarriesWalSeqs(table) ==
  \E n \in DOMAIN walFiles :
    \A i \in 1..Len(table.entries) :
      \E j \in 1..Len(walFiles[n]) :
        /\ IsLatestFrame(walFiles[n], j, table.entries[i].Key)
        /\ walFiles[n][j].Type = table.entries[i].Type
        /\ walFiles[n][j].Value = table.entries[i].Value
        /\ walFiles[n][j].Seq = table.entries[i].Seq

\* C29: every entry a flush persists in a table carries the seq the worker
\* assigned to the latest write of its key, the seq of that write's WAL
\* record, and not the memtable's own counter.
C29_TableCarriesWalSeq ==
  \A p \in DOMAIN sstFiles : sstFiles[p].complete => CarriesWalSeqs(sstFiles[p])

\* The same with the seq left out of the comparison.
CarriesWalEntries(table) ==
  \E n \in DOMAIN walFiles :
    \A i \in 1..Len(table.entries) :
      \E j \in 1..Len(walFiles[n]) :
        /\ IsLatestFrame(walFiles[n], j, table.entries[i].Key)
        /\ walFiles[n][j].Type = table.entries[i].Type
        /\ walFiles[n][j].Value = table.entries[i].Value

TableCarriesWalEntries ==
  \A p \in DOMAIN sstFiles : sstFiles[p].complete => CarriesWalEntries(sstFiles[p])


TmpNext ==
  \/ Next
  \/ ManifestFlushFailsWithin(MaxFlushFaults)
  \/ ReplyError

\* Operation in which Manifest.Flush may fail, more than once.
TmpSpec == Init /\ [][TmpNext]_vars

\* Manifest.Flush fails in os.Create, WriteManifest or f.Sync.
TmpFailure == wpc = "fl_tmp" /\ wpc' = "reply_err"

\* MANIFEST changes only in the rename, from one complete Version to the
\* complete Version that is current during the Flush call.
ManifestReplacedWhole ==
  manifestFile' # manifestFile =>
    /\ wpc = "fl_rename"
    /\ manifestTmp = current
    /\ manifestFile' = current
    /\ manifestFile'.CurrentWAL = newWAL

FlushInstallsAtomically == [][ManifestReplacedWhole]_vars

\* A failure before the rename leaves MANIFEST alone and no MANIFEST.tmp
\* behind.
TmpFailureCleansUp ==
  TmpFailure => manifestFile' = manifestFile /\ manifestTmp' = NoFile

\* C30: Manifest.Flush installs the checkpoint atomically: MANIFEST is at
\* every instant the complete previous Version or the complete Version
\* current at the call; when creating, writing or syncing MANIFEST.tmp fails,
\* MANIFEST is untouched, MANIFEST.tmp is removed and the error is returned.
C30_ManifestFlushAtomic == [][ManifestReplacedWhole /\ TmpFailureCleansUp]_vars


(***************************************************************************)
(* internal/manifest: Apply called on its own, on any Version and edit.    *)
(***************************************************************************)
MaxApplyFileNo == 2

\* Lists of up to n tables with distinct file numbers out of nos.
FileLists(nos, n) ==
  {<<>>}
    \cup {<<FileMetadata(a, <<1>>, <<2>>)>> : a \in nos}
    \cup (IF n < 2 THEN {}
          ELSE {fms \in {<<FileMetadata(a, <<1>>, <<2>>), FileMetadata(b, <<1>>, <<2>>)>> :
                            a \in nos, b \in nos} :
                  fms[1].FileNo # fms[2].FileNo})

FileNosOf(fms) == {fms[i].FileNo : i \in 1..Len(fms)}

\* Versions a Manifest can hold: tables in L0 and L1, no file number twice,
\* NextSSTableNumber above every file number in use.
ApplyVersions ==
  {v \in [CurrentWAL : {1}, NextWALNumber : {2},
          NextSSTableNumber : 0..(MaxApplyFileNo + 1),
          Levels : {[l \in Levels |-> IF l = 0 THEN a ELSE IF l = 1 THEN b ELSE <<>>] :
                      a \in FileLists(0..MaxApplyFileNo, 2),
                      b \in FileLists(0..MaxApplyFileNo, 1)}] :
     /\ FileNosOf(v.Levels[0]) \cap FileNosOf(v.Levels[1]) = {}
     /\ \A n \in FileNosOf(v.Levels[0]) \cup FileNosOf(v.Levels[1]) :
          n < v.NextSSTableNumber}

\* CompactionEdit values: additions to and deletions from L0 and L1, each
\* map with any subset of the two levels as its keys.
ApplyAdds ==
  UNION {[D -> FileLists(0..(MaxApplyFileNo + 1), 2)] : D \in SUBSET {0, 1}}

ApplyDeletes ==
  UNION {[D -> SUBSET (0..1)] : D \in SUBSET {0, 1}}

ApplyEdits == [AddSSTables : ApplyAdds, DeleteSSTables : ApplyDeletes]

ApplyInit ==
  /\ DBInit
  /\ input \in [v : ApplyVersions, edit : ApplyEdits]
  /\ output = NoCall

\* m.Apply(edit) with m.current = v; output is the Version published
ApplyCall ==
  /\ output = NoCall
  /\ output' = <<Apply(input.v, input.edit)>>
  /\ UNCHANGED <<input, dataVars, lockVars>>

ApplySpec == ApplyInit /\ [][ApplyCall]_vars

\* The tables an edit adds to level l, deletes from level l, and all the
\* file numbers it adds.
AddedTo(edit, l) ==
  IF l \in DOMAIN edit.AddSSTables THEN edit.AddSSTables[l] ELSE <<>>

DeletedFrom(edit, l) ==
  IF l \in DOMAIN edit.DeleteSSTables THEN edit.DeleteSSTables[l] ELSE {}

AddedFileNos(edit) == UNION {FileNosOf(AddedTo(edit, l)) : l \in Levels}

\* What the edit asks for, level by level.
LevelAfter(v, edit, l) ==
  SelectSeq(v.Levels[l], LAMBDA fm : fm.FileNo \notin DeletedFrom(edit, l))
    \o AddedTo(edit, l)

\* max(old next_sst_no, largest added file_no + 1)
NextSSTableNumberAfter(v, edit) ==
  IF AddedFileNos(edit) = {} THEN v.NextSSTableNumber
  ELSE LET top == CHOOSE n \in AddedFileNos(edit) : \A o \in AddedFileNos(edit) : o <= n
       IN IF top + 1 > v.NextSSTableNumber THEN top + 1 ELSE v.NextSSTableNumber

ApplyLevelsAndWAL ==
  output # NoCall =>
    /\ \A l \in Levels : output[1].Levels[l] = LevelAfter(input.v, input.edit, l)
    /\ output[1].NextSSTableNumber >= input.v.NextSSTableNumber
    /\ output[1].CurrentWAL = input.v.CurrentWAL
    /\ output[1].NextWALNumber = input.v.NextWALNumber

ApplyNextSSTableNumber ==
  output # NoCall =>
    output[1].NextSSTableNumber = NextSSTableNumberAfter(input.v, input.edit)

\* C31: Apply publishes a Version in which, per level, the deleted files are
\* removed and then the added files appended; NextSSTableNumber becomes
\* max(old NextSSTableNumber, largest added FileNo + 1) and never decreases;
\* CurrentWAL and NextWALNumber are unchanged.
C31_ApplyEdit == ApplyLevelsAndWAL /\ ApplyNextSSTableNumber

\* The same for edits that add at least one table.
ApplyNextSSTableNumberWithAdds ==
  (output # NoCall /\ AddedFileNos(input.edit) # {}) =>
    output[1].NextSSTableNumber = NextSSTableNumberAfter(input.v, input.edit)


(***************************************************************************)
(* internal/common: entry frames as bytes.  A frame is the type byte, seq,  *)
(* keyLen and valueLen as little-endian uint32, then the key and the value. *)
(***************************************************************************)
MaxFrames == 2

\* binary.LittleEndian.PutUint32
PutUint32(v) ==
  <<v % 256, (v \div 256) % 256, (v \div 65536) % 256, (v \div 16777216) % 256>>

\* binary.LittleEndian.Uint32
Uint32(b) == b[1] + 256 * b[2] + 65536 * b[3] + 16777216 * b[4]

\* WriteEntry
WriteEntryBytes(e) ==
  <<e.Type>> \o PutUint32(e.Seq) \o PutUint32(Len(e.Key))
    \o PutUint32(Len(e.Value)) \o e.Key \o e.Value

\* io.ReadFull for n >= 1 bytes: io.EOF when nothing is left,
\* io.ErrUnexpectedEOF when fewer than n bytes are
ReadFull(bytes, n) ==
  IF Len(bytes) >= n
  THEN [err |-> "nil", data |-> SubSeq(bytes, 1, n),
        rest |-> SubSeq(bytes, n + 1, Len(bytes))]
  ELSE [err |-> IF bytes = <<>> THEN "EOF" ELSE "ErrUnexpectedEOF",
        data |-> <<>>, rest |-> <<>>]

\* ReadBytes: nothing is read for length 0
ReadBytes(bytes, length) ==
  IF length = 0 THEN [err |-> "nil", data |-> <<>>, rest |-> bytes]
  ELSE ReadFull(bytes, length)

\* A reader that takes io.EOF inside a frame for the end of the stream.
FieldErrorPassesEOF(err) == IF err = "EOF" THEN "nil" ELSE "ErrIncompleteEntry"

\* ReadEntry: every error after the first byte is ErrIncompleteEntry
FieldError(err) == "ErrIncompleteEntry"

\* ReadEntry: [entry, err, rest]; entry is <<>> for a nil *Entry
ReadEntry(bytes) ==
  IF bytes = <<>> THEN [entry |-> <<>>, err |-> "nil", rest |-> <<>>]
  ELSE
    LET firstByte == Head(bytes)
        seq == ReadFull(Tail(bytes), 4)
    IN IF seq.err # "nil" THEN [entry |-> <<>>, err |-> FieldError(seq.err), rest |-> <<>>]
       ELSE
         LET keyLen == ReadFull(seq.rest, 4)
         IN IF keyLen.err # "nil"
            THEN [entry |-> <<>>, err |-> FieldError(keyLen.err), rest |-> <<>>]
            ELSE
              LET valueLen == ReadFull(keyLen.rest, 4)
              IN IF valueLen.err # "nil"
                 THEN [entry |-> <<>>, err |-> FieldError(valueLen.err), rest |-> <<>>]
                 ELSE
                   LET key == ReadBytes(valueLen.rest, Uint32(keyLen.data))
                   IN IF key.err # "nil"
                      THEN [entry |-> <<>>, err |-> FieldError(key.err), rest |-> <<>>]
                      ELSE
                        LET value == ReadBytes(key.rest, Uint32(valueLen.data))
                        IN IF value.err # "nil"
                           THEN [entry |-> <<>>, err |-> FieldError(value.err),
                                 rest |-> <<>>]
                           ELSE [entry |-> <<[Type |-> firstByte,
                                              Seq |-> Uint32(seq.data),
                                              Key |-> key.data,
                                              Value |-> value.data]>>,
                                 err |-> "nil", rest |-> value.rest]

\* walIterator.Next called until it returns nil or an error
RECURSIVE ReadEntries(_)
ReadEntries(bytes) ==
  LET r == ReadEntry(bytes)
  IN IF r.err # "nil" THEN [entries |-> <<>>, err |-> r.err]
     ELSE IF r.entry = <<>> THEN [entries |-> <<>>, err |-> "nil"]
     ELSE LET more == ReadEntries(r.rest)
          IN [entries |-> r.entry \o more.entries, err |-> more.err]

\* Entries with one- and two-byte seqs, keys of length 0 to 2, with and
\* without a value.
FrameEntries ==
  [Type : {EntryTypePut, EntryTypeDelete}, Seq : {1, 300},
   Key : {<<>>, <<1>>, <<1, 2>>}, Value : {<<>>, <<5>>}]

RECURSIVE WriteEntries(_)
WriteEntries(es) ==
  IF es = <<>> THEN <<>> ELSE WriteEntryBytes(Head(es)) \o WriteEntries(Tail(es))

EntryStreams == UNION {[1..n -> FrameEntries] : n \in 0..MaxFrames}

\* A stream of frames with the bytes from offset cut on lost.
ReadInit ==
  /\ DBInit
  /\ input \in {[entries |-> es, cut |-> c] :
                  es \in EntryStreams, c \in 0..(16 * MaxFrames)}
  /\ input.cut <= Len(WriteEntries(input.entries))
  /\ output = NoCall

ReadCall ==
  /\ output = NoCall
  /\ output' = <<ReadEntries(SubSeq(WriteEntries(input.entries), 1, input.cut))>>
  /\ UNCHANGED <<input, dataVars, lockVars>>

ReadSpec == ReadInit /\ [][ReadCall]_vars

\* The length in bytes of the first n frames of the stream.
RECURSIVE FramesLength(_, _)
FramesLength(es, n) ==
  IF n = 0 THEN 0
  ELSE 13 + Len(es[n].Key) + Len(es[n].Value) + FramesLength(es, n - 1)

\* The number of frames that lie wholly before the cut.
FramesBeforeCut(es, cut) ==
  CHOOSE n \in 0..Len(es) :
    /\ FramesLength(es, n) <= cut
    /\ n < Len(es) => FramesLength(es, n + 1) > cut

\* C32: reading a concatenation of valid frames cut at any byte offset
\* yields exactly the whole frames in order, then a clean end of stream if
\* the cut is on a frame boundary and ErrIncompleteEntry otherwise; a torn
\* frame is neither returned as an entry nor taken for the end of the stream.
C32_TruncatedStream ==
  output # NoCall =>
    LET n == FramesBeforeCut(input.entries, input.cut)
    IN /\ output[1].entries = SubSeq(input.entries, 1, n)
       /\ output[1].err =
            IF FramesLength(input.entries, n) = input.cut
            THEN "nil" ELSE "ErrIncompleteEntry"

\* A stream cut inside its second frame has been read.
C32_Witness ==
  /\ output # NoCall
  /\ Len(input.entries) = 2
  /\ FramesBeforeCut(input.entries, input.cut) = 1
  /\ FramesLength(input.entries, 1) < input.cut
  /\ output[1].err = "ErrIncompleteEntry"


(***************************************************************************)
(* internal/wal on its own: one log file, one handle at a time.  input is  *)
(* [file, open, written, failed, calls]: the frames in the file, whether a  *)
(* handle is open, the entries of the batches WriteEntry returned nil for   *)
(* since the file was created, the WriteEntry calls that returned an error, *)
(* and the calls made.                                                      *)
(***************************************************************************)
MaxWalCalls == 5

\* The batches written: one or two entries; the seq is the call's number.
WalBatches(n) ==
  {<<[Type |-> EntryTypePut, Seq |-> n, Key |-> <<1>>, Value |-> <<n>>]>>,
   <<[Type |-> EntryTypePut, Seq |-> n, Key |-> <<1>>, Value |-> <<n>>],
     [Type |-> EntryTypeDelete, Seq |-> n, Key |-> <<2>>, Value |-> NoValue]>>}

Frames(es) == [i \in 1..Len(es) |-> Frame(es[i])]

WalInit ==
  /\ DBInit
  /\ input = [file |-> <<>>, open |-> TRUE, written |-> <<>>, failed |-> 0, calls |-> 0]
  /\ output = NoCall

\* CreateWAL(path): O_CREATE|O_RDWR|O_TRUNC
WalCreate ==
  /\ ~input.open
  /\ input.calls < MaxWalCalls
  /\ input' = [input EXCEPT !.file = <<>>, !.open = TRUE, !.written = <<>>,
                            !.calls = @ + 1]
  /\ output' = NoCall
  /\ UNCHANGED <<dataVars, lockVars>>

\* OpenWAL(path): O_RDWR|O_APPEND
WalOpen ==
  /\ ~input.open
  /\ input.calls < MaxWalCalls
  /\ input' = [input EXCEPT !.open = TRUE, !.calls = @ + 1]
  /\ output' = NoCall
  /\ UNCHANGED <<dataVars, lockVars>>

\* walImpl.Close
WalClose ==
  /\ input.open
  /\ input.calls < MaxWalCalls
  /\ input' = [input EXCEPT !.open = FALSE, !.calls = @ + 1]
  /\ output' = NoCall
  /\ UNCHANGED <<dataVars, lockVars>>

\* walImpl.WriteEntry(es) returns nil
WalWrite(es) ==
  /\ input.open
  /\ input.calls < MaxWalCalls
  /\ input' = [input EXCEPT !.file = @ \o Frames(es),
                            !.written = @ \o es, !.calls = @ + 1]
  /\ output' = NoCall
  /\ UNCHANGED <<dataVars, lockVars>>

\* walImpl.WriteEntry(es) returns an error: common.WriteEntry failed on
\* entry n + 1 with some or none of its bytes written, or, with n = Len(es),
\* l.file.Sync() failed
WalWriteReturnsError(es, n, partial) ==
  /\ input.open
  /\ input.calls < MaxWalCalls
  /\ input.failed < MaxFaults
  /\ input' = [input EXCEPT
                 !.file = @ \o Frames(SubSeq(es, 1, n))
                            \o (IF partial /\ n < Len(es) THEN <<Torn>> ELSE <<>>),
                 !.failed = @ + 1, !.calls = @ + 1]
  /\ output' = NoCall
  /\ UNCHANGED <<dataVars, lockVars>>

\* walImpl.Iterator, read to its end
WalIterate ==
  /\ input.open
  /\ output = NoCall
  /\ output' = <<WalRead(input.file)>>
  /\ UNCHANGED <<input, dataVars, lockVars>>

WalNext ==
  \/ WalCreate
  \/ WalOpen
  \/ WalClose
  \/ \E es \in WalBatches(input.calls + 1) : WalWrite(es)
  \/ \E es \in WalBatches(input.calls + 1), n \in 0..2, partial \in BOOLEAN :
       n <= Len(es) /\ WalWriteReturnsError(es, n, partial)
  \/ WalIterate

WalSpec == WalInit /\ [][WalNext]_vars

\* The iterator's entries that belong to batches written with success.
YieldedOf(entries, written) ==
  SelectSeq(entries, LAMBDA f : \E i \in 1..Len(written) : f = Frame(written[i]))

\* C33: a WAL keeps its contents across handles: iterating yields every
\* entry of every batch written with success, in write order, with type,
\* seq, key and value; OpenWAL keeps what is on disk and later batches go
\* after it; CreateWAL starts from an empty file.
C33_WalKeepsBatches ==
  output # NoCall => YieldedOf(output[1].entries, input.written) = Frames(input.written)

\* As long as no WriteEntry call has failed, the iterator yields exactly the
\* written entries and ends cleanly.
WalKeepsBatchesWithoutFailure ==
  (output # NoCall /\ input.failed = 0) =>
    /\ output[1].entries = Frames(input.written)
    /\ output[1].err = "nil"


(***************************************************************************)
(* internal/memtable on its own.  input is [ops, m, it, snap]: the Put and  *)
(* Delete calls made, the memtable, the iterator taken (<<>> before the     *)
(* Iterator call, else <<[entries, index]>>) and the memtable as it was at  *)
(* the Iterator call; output is what the iterator's Next has returned.      *)
(***************************************************************************)
MaxMemOps == 4

MemKeySet == {<<1>>, <<1, 2>>, <<2>>}

MemInit ==
  /\ DBInit
  /\ input = [ops |-> <<>>, m |-> NewMapMemtable, it |-> <<>>, snap |-> NewMapMemtable]
  /\ output = <<>>

\* m.Put(key, value); the value written is the call's number
MemPutCall(key) ==
  /\ Len(input.ops) < MaxMemOps
  /\ LET value == <<Len(input.ops) + 1>>
     IN input' = [input EXCEPT
                    !.m = MemPut(@, key, value),
                    !.ops = Append(@, [Type |-> EntryTypePut, Key |-> key,
                                       Value |-> value])]
  /\ UNCHANGED <<output, dataVars, lockVars>>

\* m.Delete(key)
MemDeleteCall(key) ==
  /\ Len(input.ops) < MaxMemOps
  /\ input' = [input EXCEPT
                 !.m = MemDelete(@, key),
                 !.ops = Append(@, [Type |-> EntryTypeDelete, Key |-> key,
                                    Value |-> NoValue])]
  /\ UNCHANGED <<output, dataVars, lockVars>>

\* m.Iterator(): the entries are cloned into the iterator's slice
MemIteratorCall ==
  /\ input.it = <<>>
  /\ input' = [input EXCEPT !.it = <<[entries |-> MemIterator(input.m), index |-> 0]>>,
                            !.snap = input.m]
  /\ UNCHANGED <<output, dataVars, lockVars>>

\* An iterator that keeps the keys and looks the entry up when asked.
IteratorEntryLive(it, m) == MemGet(m, it.entries[it.index + 1].Key)

\* memtableIterator.Next: entry := it.entries[it.index]
IteratorEntry(it, m) == it.entries[it.index + 1]

\* memtableIterator.Next returns an entry
MemIteratorNext ==
  /\ input.it # <<>>
  /\ input.it[1].index < Len(input.it[1].entries)
  /\ output' = Append(output, IteratorEntry(input.it[1], input.m))
  /\ input' = [input EXCEPT !.it[1].index = @ + 1]
  /\ UNCHANGED <<dataVars, lockVars>>

MemNext ==
  \/ \E key \in MemKeySet : MemPutCall(key)
  \/ \E key \in MemKeySet : MemDeleteCall(key)
  \/ MemIteratorCall
  \/ MemIteratorNext

MemSpec == MemInit /\ [][MemNext]_vars

\* The keys written and the last call on a key.
KeysWritten(ops) == {ops[i].Key : i \in 1..Len(ops)}

LastWrite(ops, key) ==
  CHOOSE i \in 1..Len(ops) :
    /\ ops[i].Key = key
    /\ \A j \in (i + 1)..Len(ops) : ops[j].Key # key

IteratorExhausted ==
  input.it # <<>> /\ input.it[1].index = Len(input.it[1].entries)

\* C35: the iterator yields exactly the entries present at the Iterator
\* call, one per key, in strictly ascending key order; Puts and Deletes after
\* the call do not change what it yields.
C35_IteratorSnapshot ==
  /\ \A i \in 1..Len(output) :
       /\ MemHas(input.snap, output[i].Key)
       /\ output[i] = MemGet(input.snap, output[i].Key)
  /\ \A i \in 1..Len(output) : \A j \in 1..Len(output) :
       i < j => KeyLess(output[i].Key, output[j].Key)
  /\ IteratorExhausted =>
       {output[i].Key : i \in 1..Len(output)} = DOMAIN input.snap.items

\* The iterator has yielded, after the key was overwritten, the entry the
\* key had at the Iterator call.
C35_Witness ==
  /\ IteratorExhausted
  /\ Len(output) >= 2
  /\ \E i \in 1..Len(output) :
       /\ MemGet(input.m, output[i].Key) # output[i]
       /\ input.it[1].entries[i] = output[i]


\* The table's keys ascend strictly: one record per key.
StrictlyAscending(entries) ==
  \A i \in 1..Len(entries) : \A j \in 1..Len(entries) :
    i < j => KeyLess(entries[i].Key, entries[j].Key)

\* The table holds the memtable's entry of every key of the memtable and
\* nothing else.
HoldsMemtable(table, m) ==
  /\ table.complete
  /\ StrictlyAscending(table.entries)
  /\ {table.entries[i].Key : i \in 1..Len(table.entries)} = DOMAIN m.items
  /\ \A i \in 1..Len(table.entries) :
       table.entries[i] = MemGet(m, table.entries[i].Key)
  /\ table.EntryCount = MemLen(m)

\* writeSSTable has written the table of the flush.
FlushWritesMemtable ==
  (wpc = "fl_sstwrite" /\ wpc' = "fl_tmp") =>
     HoldsMemtable(sstFiles'[<<0, current.NextSSTableNumber>>], memtable)

\* C36: every table a flush produces is strictly ascending by key with one
\* record per key: the memtable's latest entry, Put or tombstone, of each
\* key the memtable holds at flush time, and nothing else.
C36_FlushedTableIsMemtable ==
  /\ [][FlushWritesMemtable]_vars
  /\ [](\A p \in DOMAIN sstFiles : StrictlyAscending(sstFiles[p].entries))

\* A flush has written a table of two or more keys, one of them deleted
\* and one written more than once.
C36_Witness ==
  /\ wpc = "fl_tmp"
  /\ \E p \in DOMAIN sstFiles :
       /\ HoldsMemtable(sstFiles[p], memtable)
       /\ Len(sstFiles[p].entries) >= 2
       /\ \E i \in 1..Len(sstFiles[p].entries) :
            sstFiles[p].entries[i].Type = EntryTypeDelete
       /\ memtable.next > MemLen(memtable)


(***************************************************************************)
(* internal/sstable and internal/block as bytes: the table file is the     *)
(* data blocks (framed entries), the index region and the footer.  input   *)
(* is [entries, file, table]: the stream handed to WriteSSTable, the file  *)
(* written (<<>> before the call) and the opened table (<<>> before        *)
(* OpenSSTable, else <<[footer, index]>>); output is the call made on the  *)
(* opened table and its result.                                            *)
(***************************************************************************)
BLOCK_SIZE == 64

\* The footer: FilterOffset, IndexOffset and EntryCount, a uint64 each
FOOTER_SIZE == 3 * 8

MaxBlocks == 2

\* common.WriteUint64; the offsets and counts explored stay below 2^31
PutUint64(v) == PutUint32(v) \o <<0, 0, 0, 0>>

\* common.ReadUint64 of eight bytes whose upper four are zero
Uint64(b) == Uint32(b)

\* IndexEntry.Encode
EncodeIndexEntry(e) == PutUint64(e.BlockOffset) \o PutUint64(Len(e.Key)) \o e.Key

RECURSIVE EncodeIndexEntries(_)
EncodeIndexEntries(es) ==
  IF es = <<>> THEN <<>>
  ELSE EncodeIndexEntry(Head(es)) \o EncodeIndexEntries(Tail(es))

\* WriteIndex
WriteIndex(idx) == PutUint64(Len(idx)) \o EncodeIndexEntries(idx)

\* WriteFooter
WriteFooter(f) ==
  PutUint64(f.FilterOffset) \o PutUint64(f.IndexOffset) \o PutUint64(f.EntryCount)

\* One turn of WriteSSTable's loop: st is the loop's variables and the bytes
\* written so far.
StreamEntry(st, entry) ==
  LET bytes == WriteEntryBytes(entry)
      newBlock == st.blockEntryCount = 0
      count == st.blockEntryCount + 1
      full == count >= BLOCK_SIZE
      blockStartOffset == IF newBlock THEN st.offset ELSE st.blockStartOffset
      firstBlockKey == IF newBlock THEN entry.Key ELSE st.firstBlockKey
  IN [data |-> st.data \o bytes,
      offset |-> st.offset + Len(bytes),
      indexEntries |->
        IF full THEN Append(st.indexEntries,
                       [BlockOffset |-> blockStartOffset, Key |-> firstBlockKey])
        ELSE st.indexEntries,
      blockEntryCount |-> IF full THEN 0 ELSE count,
      totalEntryCount |-> st.totalEntryCount + 1,
      blockStartOffset |-> blockStartOffset,
      firstBlockKey |-> firstBlockKey,
      smallestKey |-> IF st.totalEntryCount = 0 THEN entry.Key ELSE st.smallestKey,
      largestKey |-> entry.Key]

\* WriteSSTable's loop over entries lo..hi of the stream, in order: the
\* first half, then the second from where the first ended.
RECURSIVE StreamBlocks(_, _, _, _)
StreamBlocks(entries, st, lo, hi) ==
  IF lo > hi THEN st
  ELSE IF lo = hi THEN StreamEntry(st, entries[lo])
  ELSE LET mid == (lo + hi) \div 2
           half == StreamBlocks(entries, st, lo, mid)
       IN IF half.totalEntryCount >= 0
          THEN StreamBlocks(entries, half, mid + 1, hi) ELSE half

\* WriteSSTable: the bytes written and the WriteResult
WriteSSTableBytes(entries) ==
  LET st == StreamBlocks(entries,
              [data |-> <<>>, offset |-> 0, indexEntries |-> <<>>,
               blockEntryCount |-> 0, totalEntryCount |-> 0,
               blockStartOffset |-> 0, firstBlockKey |-> <<>>,
               smallestKey |-> <<>>, largestKey |-> <<>>],
              1, Len(entries))
      indexEntries == IF st.blockEntryCount > 0
                      THEN Append(st.indexEntries,
                             [BlockOffset |-> st.blockStartOffset,
                              Key |-> st.firstBlockKey])
                      ELSE st.indexEntries
      footer == [FilterOffset |-> st.offset, IndexOffset |-> st.offset,
                 EntryCount |-> st.totalEntryCount]
      file == st.data \o WriteIndex(indexEntries) \o WriteFooter(footer)
  IN [file |-> file, BytesWritten |-> Len(file), SmallestKey |-> st.smallestKey,
      LargestKey |-> st.largestKey, EntryCount |-> st.totalEntryCount]

\* ReadFooter
ReadFooter(bytes) ==
  LET filterOffset == ReadFull(bytes, 8)
      indexOffset == ReadFull(filterOffset.rest, 8)
      entryCount == ReadFull(indexOffset.rest, 8)
  IN IF filterOffset.err # "nil" THEN [err |-> filterOffset.err, footer |-> <<>>]
     ELSE IF indexOffset.err # "nil" THEN [err |-> indexOffset.err, footer |-> <<>>]
     ELSE IF entryCount.err # "nil" THEN [err |-> entryCount.err, footer |-> <<>>]
     ELSE [err |-> "nil",
           footer |-> <<[FilterOffset |-> Uint64(filterOffset.data),
                         IndexOffset |-> Uint64(indexOffset.data),
                         EntryCount |-> Uint64(entryCount.data)]>>]

\* DecodeIndexEntry: [entry, err, rest]
DecodeIndexEntry(bytes) ==
  LET blockOffset == ReadFull(bytes, 8)
      keyLen == ReadFull(blockOffset.rest, 8)
      key == ReadBytes(keyLen.rest, Uint64(keyLen.data))
  IN IF blockOffset.err # "nil" THEN [entry |-> <<>>, err |-> blockOffset.err, rest |-> <<>>]
     ELSE IF keyLen.err # "nil" THEN [entry |-> <<>>, err |-> keyLen.err, rest |-> <<>>]
     ELSE IF key.err # "nil" THEN [entry |-> <<>>, err |-> key.err, rest |-> <<>>]
     ELSE [entry |-> <<[BlockOffset |-> Uint64(blockOffset.data), Key |-> key.data]>>,
           err |-> "nil", rest |-> key.rest]

RECURSIVE DecodeIndexEntries(_, _)
DecodeIndexEntries(bytes, n) ==
  IF n = 0 THEN [entries |-> <<>>, err |-> "nil"]
  ELSE LET r == DecodeIndexEntry(bytes)
       IN IF r.err # "nil" THEN [entries |-> <<>>, err |-> r.err]
          ELSE LET more == DecodeIndexEntries(r.rest, n - 1)
               IN [entries |-> r.entry \o more.entries, err |-> more.err]

\* ReadIndex
ReadIndex(bytes) ==
  LET numEntries == ReadFull(bytes, 8)
  IN IF numEntries.err # "nil" THEN [entries |-> <<>>, err |-> numEntries.err]
     ELSE DecodeIndexEntries(numEntries.rest, Uint64(numEntries.data))

\* OpenSSTable and loadSSTableMetadata: [err, table]
OpenSSTable(file) ==
  IF Len(file) < FOOTER_SIZE THEN [err |-> "ErrUnexpectedEOF", table |-> <<>>]
  ELSE
    LET footerOffset == Len(file) - FOOTER_SIZE
        f == ReadFooter(SubSeq(file, footerOffset + 1, Len(file)))
    IN IF f.err # "nil" THEN [err |-> f.err, table |-> <<>>]
       ELSE
         LET footer == f.footer[1]
             indexSize == footerOffset - footer.IndexOffset
         IN IF indexSize <= 0 THEN [err |-> "ErrUnexpectedEOF", table |-> <<>>]
            ELSE
              LET index == ReadIndex(SubSeq(file, footer.IndexOffset + 1, footerOffset))
              IN IF index.err # "nil" THEN [err |-> index.err, table |-> <<>>]
                 ELSE [err |-> "nil",
                       table |-> <<[footer |-> footer, index |-> index.entries]>>]

\* One turn of the loop of NewBlock and of the scan: ReadEntry on what is
\* left; done once it has returned nil or an error.
ReadNext(st) ==
  IF st.done THEN st
  ELSE LET r == ReadEntry(st.rest)
       IN IF r.err # "nil"
          THEN [entries |-> <<>>, err |-> r.err, rest |-> <<>>, done |-> TRUE]
          ELSE IF r.entry = <<>> THEN [st EXCEPT !.done = TRUE]
          ELSE [st EXCEPT !.entries = @ \o r.entry, !.rest = r.rest]

\* n turns of the loop, in order: half of them, then the rest from where
\* the first half ended.
RECURSIVE ReadTurns(_, _)
ReadTurns(st, n) ==
  IF n <= 1 THEN ReadNext(st)
  ELSE LET half == ReadTurns(st, n \div 2)
       IN IF half.done THEN half ELSE ReadTurns(half, n - n \div 2)

\* NewBlock's loop: ReadEntry until it returns nil or an error; a frame has
\* 13 bytes or more, so Len(data) + 1 turns reach the end.
NewBlock(data) ==
  LET st == ReadTurns([entries |-> <<>>, err |-> "nil", rest |-> data,
                       done |-> FALSE], Len(data) + 1)
  IN [entries |-> st.entries, err |-> st.err]

\* Index.FindBlockOffset: the binary search for the first entry with
\* Key > key
RECURSIVE FindLeft(_, _, _, _)
FindLeft(idx, key, left, right) ==
  IF left >= right THEN left
  ELSE LET mid == (left + right) \div 2
       IN IF ~KeyLess(key, idx[mid + 1].Key)
          THEN FindLeft(idx, key, mid + 1, right)
          ELSE FindLeft(idx, key, left, mid)

\* A search that answers with the first block for a key below every block.
FindBlockOffsetFirstBlock(idx, key) ==
  IF Len(idx) = 0 THEN [offset |-> 0, found |-> FALSE]
  ELSE IF KeyLess(key, idx[1].Key) THEN [offset |-> idx[1].BlockOffset, found |-> TRUE]
  ELSE [offset |-> idx[FindLeft(idx, key, 0, Len(idx))].BlockOffset, found |-> TRUE]

\* Index.FindBlockOffset
FindBlockOffset(idx, key) ==
  IF Len(idx) = 0 THEN [offset |-> 0, found |-> FALSE]
  ELSE IF KeyLess(key, idx[1].Key) THEN [offset |-> 0, found |-> FALSE]
  ELSE [offset |-> idx[FindLeft(idx, key, 0, Len(idx))].BlockOffset, found |-> TRUE]

\* A lookup that takes a tombstone for a missing key.
GetHitHidesTombstone(entry) ==
  IF entry.Type = EntryTypeDelete THEN [entries |-> <<>>, err |-> "ErrNotFound"]
  ELSE [entries |-> <<entry>>, err |-> "nil"]

\* sstableImpl.Get: return entry, nil
GetHit(entry) == [entries |-> <<entry>>, err |-> "nil"]

\* sstableImpl.Get: the block ends where the next block or the filter
\* region starts; blockIdx counts from 0
BlockEnd(s, blockIdx) ==
  IF blockIdx + 1 < Len(s.index) THEN s.index[blockIdx + 2].BlockOffset
  ELSE s.footer.FilterOffset

\* sstableImpl.Get with a cache that always misses: [entries, err], entries
\* being <<entry>> on a hit
SSTableGet(s, file, key) ==
  LET b == FindBlockOffset(s.index, key)
  IN IF ~b.found THEN [entries |-> <<>>, err |-> "ErrNotFound"]
     ELSE
       LET at == {i \in 1..Len(s.index) : s.index[i].BlockOffset = b.offset}
       IN IF at = {} THEN [entries |-> <<>>, err |-> "ErrUnexpectedEOF"]
          ELSE
            LET blockIdx == (CHOOSE i \in at : \A j \in at : i <= j) - 1
                blockEnd == BlockEnd(s, blockIdx)
            IN IF blockEnd > Len(file) \/ blockEnd < b.offset
               THEN [entries |-> <<>>, err |-> "failed to read block"]
               ELSE
                 LET blk == NewBlock(SubSeq(file, b.offset + 1, blockEnd))
                 IN IF blk.err # "nil" THEN [entries |-> <<>>, err |-> "failed to parse block"]
                    ELSE LET hit == BlockSearch(blk.entries, key, 0, Len(blk.entries))
                         IN IF hit = 0 THEN [entries |-> <<>>, err |-> "ErrNotFound"]
                            ELSE GetHit(blk.entries[hit])

\* A scan that reads to the end of the file.
IteratorLimitWholeFile(s, file) == Len(file)

\* sstableImpl.Iterator: io.LimitReader(f, int64(s.footer.FilterOffset))
IteratorLimit(s, file) == s.footer.FilterOffset

\* sstableIterator.Next called until it returns nil or an error: the loop
\* of NewBlock over the bytes below the limit
SSTableIterator(s, file) == NewBlock(SubSeq(file, 1, IteratorLimit(s, file)))


\* Keys of the long streams: k as two bytes, big-endian, so that the byte
\* order is the numeric order.
NumKey(k) == <<k \div 256, k % 256>>

\* Short streams: every ascending choice of keys, the empty key and a
\* one-byte key included, every entry a Put or a tombstone.
ShortKeys == <<EmptyKey, <<0>>, NumKey(2), NumKey(4)>>

ShortStream(S, del) ==
  LET at == SortKeys({ShortKeys[i] : i \in S})
  IN [i \in 1..Len(at) |->
        LET n == CHOOSE j \in S : ShortKeys[j] = at[i]
        IN [Type |-> IF n \in del THEN EntryTypeDelete ELSE EntryTypePut,
            Seq |-> n, Key |-> at[i],
            Value |-> IF n \in del THEN NoValue ELSE <<n>>]]

ShortStreams ==
  {ShortStream(S, del) : S \in SUBSET (1..4), del \in SUBSET (1..4)}

\* Long streams: n entries with the even keys 2, 4, ..., 2n, every third a
\* tombstone; the lengths sit around the block boundaries.
LongStream(n) ==
  [i \in 1..n |->
     [Type |-> IF i % 3 = 0 THEN EntryTypeDelete ELSE EntryTypePut,
      Seq |-> i, Key |-> NumKey(2 * i),
      Value |-> IF i % 3 = 0 THEN NoValue ELSE <<i % 256>>]]

LongLengths ==
  UNION {{b * BLOCK_SIZE - 1, b * BLOCK_SIZE, b * BLOCK_SIZE + 1} : b \in 1..MaxBlocks}

TableStreams == ShortStreams \cup {LongStream(n) : n \in LongLengths}

\* The keys looked up in a table: every key written, the keys between two
\* written keys, below the first and above the last.
ProbeKeys(entries) ==
  {EmptyKey, <<0>>, <<1>>} \cup {NumKey(k) : k \in 0..(2 * Len(entries) + 1)}
    \cup {NumKey(k) : k \in 0..5}

TableInit ==
  /\ DBInit
  /\ input \in {[entries |-> es, file |-> <<>>, table |-> <<>>] : es \in TableStreams}
  /\ output = NoCall

\* WriteSSTable(w, entries) returns a WriteResult
TableWrite ==
  /\ input.file = <<>>
  /\ input' = [input EXCEPT !.file = WriteSSTableBytes(input.entries).file]
  /\ UNCHANGED <<output, dataVars, lockVars>>

\* OpenSSTable(path, fileNo, blockCache)
TableOpen ==
  /\ input.file # <<>>
  /\ input.table = <<>>
  /\ OpenSSTable(input.file).err = "nil"
  /\ input' = [input EXCEPT !.table = OpenSSTable(input.file).table]
  /\ UNCHANGED <<output, dataVars, lockVars>>

\* s.Get(key)
TableGetCall(key) ==
  /\ input.table # <<>>
  /\ output = NoCall
  /\ output' = <<[call |-> "Get", key |-> key, offset |-> 0,
                  result |-> SSTableGet(input.table[1], input.file, key)]>>
  /\ UNCHANGED <<input, dataVars, lockVars>>

\* s.index.FindBlockOffset(key)
TableFindBlock(key) ==
  /\ input.table # <<>>
  /\ output = NoCall
  /\ LET b == FindBlockOffset(input.table[1].index, key)
     IN output' = <<[call |-> "FindBlockOffset", key |-> key, offset |-> b.offset,
                     result |-> [entries |-> <<>>,
                                 err |-> IF b.found THEN "nil" ELSE "none"]]>>
  /\ UNCHANGED <<input, dataVars, lockVars>>

\* s.Iterator() walked to the end
TableScan ==
  /\ input.table # <<>>
  /\ output = NoCall
  /\ output' = <<[call |-> "Iterator", key |-> EmptyKey, offset |-> 0,
                  result |-> SSTableIterator(input.table[1], input.file)]>>
  /\ UNCHANGED <<input, dataVars, lockVars>>

TableNext ==
  \/ TableWrite
  \/ TableOpen
  \/ \E key \in ProbeKeys(input.entries) : TableGetCall(key)
  \/ \E key \in ProbeKeys(input.entries) : TableFindBlock(key)
  \/ TableScan

TableSpec == TableInit /\ [][TableNext]_vars

\* The entry written under the key, as <<entry>>, or <<>>.
WrittenUnder(entries, key) ==
  SelectSeq(entries, LAMBDA e : e.Key = key)

\* C37: on a table written from an ascending key-unique stream, Get returns
\* the written entry for every written key, a tombstone as an entry, and
\* ErrNotFound for every key not written: below the first key, above the
\* last, or between two written keys.
C37_GetFindsExactlyWritten ==
  /\ input.file # <<>> => OpenSSTable(input.file).err = "nil"
  /\ (output # NoCall /\ output[1].call = "Get") =>
        LET written == WrittenUnder(input.entries, output[1].key)
        IN /\ Len(written) <= 1
           /\ output[1].result.entries = written
           /\ output[1].result.err = IF written = <<>> THEN "ErrNotFound" ELSE "nil"

\* Get has returned a tombstone that lies in the second block or later.
C37_Witness ==
  /\ output # NoCall
  /\ output[1].call = "Get"
  /\ output[1].result.entries # <<>>
  /\ output[1].result.entries[1].Type = EntryTypeDelete
  /\ Len(input.table[1].index) >= 2
  /\ ~KeyLess(output[1].key, input.table[1].index[2].Key)

\* C38: the full scan yields footer.EntryCount entries, the entries written
\* in their order, and ends without an error: it reads no byte of the
\* filter, index or footer regions.
C38_ScanYieldsWritten ==
  (output # NoCall /\ output[1].call = "Iterator") =>
     /\ output[1].result.err = "nil"
     /\ output[1].result.entries = input.entries
     /\ Len(output[1].result.entries) = input.table[1].footer.EntryCount
     /\ StrictlyAscending(output[1].result.entries)

\* A scan over more than one block has ended.
C38_Witness ==
  /\ output # NoCall
  /\ output[1].call = "Iterator"
  /\ Len(output[1].result.entries) > BLOCK_SIZE
  /\ Len(input.table[1].index) >= 2


\* The entries of data block i of a stream, blocks counted from 1.
BlockOf(entries, i) ==
  SubSeq(entries, (i - 1) * BLOCK_SIZE + 1,
         IF i * BLOCK_SIZE < Len(entries) THEN i * BLOCK_SIZE ELSE Len(entries))

\* The bytes of the file from idx[i]'s offset to the next block's, or to
\* the end of the data region.
BytesAt(file, s, i) ==
  SubSeq(file, s.index[i].BlockOffset + 1,
         IF i < Len(s.index) THEN s.index[i + 1].BlockOffset
         ELSE s.footer.FilterOffset)

\* The index has one entry per data block, sorted by first key, each with
\* its block's first key and the offset its block's frames start at.
IndexCoversBlocks ==
  input.table # <<>> =>
    LET s == input.table[1]
        blocks == (Len(input.entries) + BLOCK_SIZE - 1) \div BLOCK_SIZE
    IN /\ Len(s.index) = blocks
       /\ \A i \in 1..blocks :
            /\ s.index[i].Key = BlockOf(input.entries, i)[1].Key
            /\ NewBlock(BytesAt(input.file, s, i)) =
                 [entries |-> BlockOf(input.entries, i), err |-> "nil"]
       /\ \A i \in 1..blocks : \A j \in 1..blocks :
            i < j => KeyLess(s.index[i].Key, s.index[j].Key)

\* FindBlockOffset answers with the block of the greatest first key that is
\* at most the key, and with none when there is no such block.
FindsGreatestAtMost ==
  (output # NoCall /\ output[1].call = "FindBlockOffset") =>
     LET idx == input.table[1].index
         key == output[1].key
         atMost == {i \in 1..Len(idx) : ~KeyLess(key, idx[i].Key)}
     IN IF atMost = {} THEN output[1].result.err = "none"
        ELSE /\ output[1].result.err = "nil"
             /\ \E i \in atMost :
                  /\ \A j \in atMost : j <= i
                  /\ output[1].offset = idx[i].BlockOffset

\* C39: the index has one entry per data block sorted by first key;
\* FindBlockOffset of block i's first key is block i's offset; for any key
\* it is the block with the greatest first key at most the key, never a
\* block whose smallest key exceeds the key, and none when the index is
\* empty or the key is below the first block's first key.
C39_IndexFindsBlock == IndexCoversBlocks /\ FindsGreatestAtMost

\* FindBlockOffset has answered with the second of three blocks for a key
\* that is not a first key.
C39_Witness ==
  /\ output # NoCall
  /\ output[1].call = "FindBlockOffset"
  /\ Len(input.table[1].index) >= 3
  /\ KeyLess(input.table[1].index[2].Key, output[1].key)
  /\ KeyLess(output[1].key, input.table[1].index[3].Key)
  /\ output[1].offset = input.table[1].index[2].BlockOffset


\* The worker is about to append the batch to the WAL or is appending it.
AppendingBatch == up /\ wpc \in {"assign", "wal_write"}

=============================================================================
